---- MODULE Spec2Model ----
(***************************************************************************)
(* A model of stack_greedy (src/src/greedy_stack_reg.cxx): the ImageCache, *)
(* StackGreedyProject::ReadManifest, StackGreedyProject::ReconstructStack, *)
(* StackGreedyProject::InitialMatchToVolume and                            *)
(* StackGreedyProject::IterativeMatchToVolume.                             *)
(*                                                                         *)
(* The parts are independent state machines.  The variable `stage`         *)
(* says which of them a behaviour exercises; the variables of the other    *)
(* parts keep their idle values.                                           *)
(***************************************************************************)
EXTENDS Integers, Sequences, FiniteSets, TLC

VARIABLES
  stage,          \* "cache", "init", "recon", "stack", "match" or "iter"
  \* ---- ImageCache (lines 70-159)
  m_Cache,        \* filename -> [age, size]; DOMAIN = the resident filenames
  m_UsedMemory,   \* unsigned long, not set by the constructor
  m_Counter,      \* insertion counter
  m_MaxMemory,    \* byte cap, 0 = none
  m_MaxImages,    \* count cap, 0 = none
  img_bytes,      \* filename -> size in bytes of the image on disk
  calls,          \* the calls made so far, oldest first: a filename, or 0 for PurgeCache
  \* ---- ReconstructStack (lines 428-689)
  rc,             \* the reconstruction run and the project files, see RcInit, StackInit
  \* ---- InitialMatchToVolume (lines 742-839)
  vm,             \* the volume-match run and the project files, see VmInit
  \* ---- IterativeMatchToVolume (lines 849-1022)
  vi,             \* record of the refiner run, see ViInit
  \* ---- ReadManifest (lines 386-414)
  pj              \* the manifest being read and the slides of the project, see PjInit

cacheVars == <<m_Cache, m_UsedMemory, m_Counter, m_MaxMemory, m_MaxImages, img_bytes, calls>>
vars == <<stage, m_Cache, m_UsedMemory, m_Counter, m_MaxMemory, m_MaxImages, img_bytes, calls, rc, vm, vi, pj>>

\* The records of the parts a behaviour does not exercise
RcIdle == [pc |-> "idle"]
VmIdle == [pc |-> "idle"]
ViIdle == [pc |-> "idle"]
PjIdle == [pc |-> "idle"]

\* ------------------------------------------------------------------ bounds
NFiles == 3          \* distinct image files offered to the cache
MaxImgBytes == 2     \* largest image size, in bytes
MaxCalls == 4        \* cache calls per behaviour
MaxCapBytes == 3     \* largest byte cap tried
MaxCapImages == 2    \* largest count cap tried
WordMod == 16        \* unsigned long arithmetic is modulo this (scaled down from 2^64)

FileNames == 1..NFiles

\* ------------------------------------------------------------------ ImageCache

\* The function f with its values computed once (TLC keeps a function
\* expression unevaluated until it is combined or compared)
Eager(f) == f @@ <<>>

\* Smallest element of a non-empty set of integers
MinOf(S) == CHOOSE x \in S : \A y \in S : x <= y

\* IsCacheFull without the test of the number of images
IsCacheFullBytesOnly(cache, used, new_bytes, new_images) ==
  m_MaxMemory > 0 /\ (used + new_bytes) % WordMod > m_MaxMemory

\* ImageCache::IsCacheFull
IsCacheFull(cache, used, new_bytes, new_images) ==
  \/ (m_MaxMemory > 0 /\ (used + new_bytes) % WordMod > m_MaxMemory)
  \/ (m_MaxImages > 0 /\ Cardinality(DOMAIN cache) + new_images > m_MaxImages)

\* The entry ShrinkCache erases: sort_map is keyed by the age counter and its
\* first entry is erased.  Ages are distinct (each insertion takes m_Counter++).
OldestEntry(cache) ==
  CHOOSE f \in DOMAIN cache : cache[f].age = MinOf({cache[g].age : g \in DOMAIN cache})

\* ImageCache::ShrinkCache: the while loop, on the pair (cache, used bytes)
RECURSIVE ShrinkCache(_, _, _, _)
ShrinkCache(cache, used, new_bytes, new_images) ==
  IF IsCacheFull(cache, used, new_bytes, new_images) /\ DOMAIN cache # {}
  THEN LET f == OldestEntry(cache)
           rest == [g \in DOMAIN cache \ {f} |-> cache[g]]
       IN ShrinkCache(rest, (used - cache[f].size) % WordMod, new_bytes, new_images)
  ELSE [cache |-> cache, used |-> used]

\* The age a cache hit leaves on the entry it found: GetImage returns the
\* cached pointer without touching the tuple (lines 81-88).
AgeAfterHit(entry, counter) == entry.age

\* ImageCache::GetImage<TImage>(filename)
GetImage(f) ==
  /\ stage = "cache"
  /\ Len(calls) < MaxCalls
  /\ calls' = Append(calls, f)
  /\ IF f \in DOMAIN m_Cache
     THEN /\ m_Cache' = [m_Cache EXCEPT ![f].age = AgeAfterHit(m_Cache[f], m_Counter)]
          /\ UNCHANGED <<m_UsedMemory, m_Counter>>
     ELSE LET img_size == img_bytes[f]
              s == ShrinkCache(m_Cache, m_UsedMemory, img_size, 1)
          IN /\ m_Cache' = [g \in DOMAIN s.cache \cup {f} |->
                              IF g = f THEN [age |-> m_Counter, size |-> img_size]
                              ELSE s.cache[g]]
             /\ m_Counter' = m_Counter + 1
             /\ m_UsedMemory' = (s.used + img_size) % WordMod
  /\ UNCHANGED <<stage, m_MaxMemory, m_MaxImages, img_bytes, rc, vm, vi, pj>>

\* ImageCache::PurgeCache
PurgeCache ==
  /\ stage = "cache"
  /\ Len(calls) < MaxCalls
  /\ calls' = Append(calls, 0)
  /\ m_Cache' = <<>>
  /\ m_UsedMemory' = 0
  /\ UNCHANGED <<stage, m_Counter, m_MaxMemory, m_MaxImages, img_bytes, rc, vm, vi, pj>>

\* The values an uninitialised unsigned long may hold when the cache is built
UninitWords == 0..(WordMod - 1)

\* ImageCache::ImageCache(max_memory, max_images): m_UsedMemory is not in the
\* initialiser list, so it starts with whatever the storage holds.
CacheInit ==
  /\ m_Cache = <<>>
  /\ m_Counter = 0
  /\ m_MaxMemory \in 0..MaxCapBytes
  /\ m_MaxImages \in 0..MaxCapImages
  /\ m_UsedMemory \in UninitWords
  /\ img_bytes \in [FileNames -> 1..MaxImgBytes]
  /\ calls = <<>>

\* The cache of a behaviour that exercises another part
CacheIdle ==
  /\ m_Cache = <<>>
  /\ m_Counter = 0
  /\ m_MaxMemory = 0
  /\ m_MaxImages = 0
  /\ m_UsedMemory = 0
  /\ img_bytes = [f \in FileNames |-> 1]
  /\ calls = <<>>

\* ------------------------------------------------------------------ manifest

NSlides == 3         \* slides in the manifest
MaxZ == 2            \* the near z positions are 0..(MaxZ - 1)
FarZ == 9            \* the z position of a slide far from the others
MaxZRange == 2       \* z_range is 0..MaxZRange
MaxZEpsilon == 1     \* z_epsilon is 0..MaxZEpsilon
MetricDigits == 7    \* decimal digits the model keeps of a double
StreamPrecision == 6 \* significant digits operator<< writes for a double

\* m_Slices is indexed from 0, in manifest order
Slides == 0..(NSlides - 1)

\* The z positions a manifest gives its slides
ZValues == (0..(MaxZ - 1)) \cup {FarZ}
Pairs == {<<i, j>> \in Slides \X Slides : i # j}

Abs(x) == IF x < 0 THEN -x ELSE x

RECURSIVE Pow(_, _)
Pow(b, e) == IF e = 0 THEN 1 ELSE b * Pow(b, e - 1)

\* std::set<std::pair<double, unsigned int>>: ordered by z, then by index
SliceRefLess(z, a, b) == z[a] < z[b] \/ (z[a] = z[b] /\ a < b)

\* The members of a slice_ref_set in iteration order
RECURSIVE SortedRefs(_, _)
SortedRefs(z, S) ==
  IF S = {} THEN <<>>
  ELSE LET m == CHOOSE a \in S : \A b \in S \ {a} : SliceRefLess(z, a, b)
       IN <<m>> \o SortedRefs(z, S \ {m})

\* m_SortedSlices as ReadManifest builds it
SortedSlices(z) == SortedRefs(z, DOMAIN z)

\* Position (1-based) of slide k in a sequence of slides
PosOf(order, k) == CHOOSE p \in 1..Len(order) : order[p] = k

\* ------------------------------------------------------------------ files

\* CanSkipFile without the look at the file system
CanSkipWhenReuse(reuse, files, fn) == reuse

\* CanSkipFile without the look at the reuse flag
CanSkipIfExists(reuse, files, fn) == fn \in files

\* StackGreedyProject::CanSkipFile
CanSkipFile(reuse, files, fn) == reuse /\ fn \in files

\* GetFilenameForSlicePair / GetFilenameForSlice: slides of a manifest carry
\* pairwise distinct unique ids here, so a path is its intent and its slides.
FnPair(intent, ref, mov) == <<intent, ref, mov>>
FnSlice(intent, k) == <<intent, k, k>>

\* f_metric << pair_metric: the default stream precision keeps
\* StreamPrecision significant digits
RECURSIVE NumDigits(_)
NumDigits(n) == IF n < 10 THEN 1 ELSE 1 + NumDigits(n \div 10)

FormatMetric(m) ==
  LET a == Abs(m)
      d == NumDigits(a)
  IN IF d <= StreamPrecision THEN m
     ELSE LET u == Pow(10, d - StreamPrecision)
              r == ((a + (u \div 2)) \div u) * u
          IN IF m < 0 THEN -r ELSE r

\* fin >> pair_metric
ParseMetric(text) == text

\* ------------------------------------------------------------------ ReadManifest

MaxLines == 3        \* lines of a manifest file

\* A line is the sequence of the fields operator>> finds in it: none in an
\* empty line and in a line of white space only
BlankLines == {<<>>}

UniqueIds == {"a", "b"}
RawFiles == {"slide.png", "gone.png"}

\* itksys::SystemTools::FileExists(raw_filename)
RawFileExists(f) == f # "gone.png"

\* unique_id, z_pos, raw_filename
FullLines == UniqueIds \X (0..(MaxZ - 1)) \X RawFiles

\* Lines that end before the third field
ShortLines == {<<u>> : u \in UniqueIds} \cup (UniqueIds \X (0..(MaxZ - 1)))

ManifestLines == BlankLines \cup ShortLines \cup FullLines

\* iss >> slice.unique_id >> slice.z_pos >> slice.raw_filename (line 400):
\* true when all three fields were read
Extracts(line) == Len(line) >= 3

SliceOf(line) == [unique_id |-> line[1], z_pos |-> line[2], raw_filename |-> line[3]]

\* z_pos of the slides, by index from 0
ZPosOf(slices) == [k \in 0..(Len(slices) - 1) |-> slices[k + 1].z_pos]

\* init: InitializeProject is about to read the manifest file
PjInit ==
  \E n \in 0..MaxLines :
    \E lines \in [1..n -> ManifestLines] :
      pj = [pc |-> "reading", manifest |-> lines, line |-> 1,
            m_Slices |-> <<>>, m_SortedSlices |-> <<>>, what |-> ""]

\* One turn of the loop of lines 395-412: a line is taken and parsed; the
\* exception leaves the program through main
ReadManifestLine ==
  /\ stage = "init"
  /\ pj.pc = "reading"
  /\ pj.line <= Len(pj.manifest)
  /\ LET f_line == pj.manifest[pj.line]
     IN IF ~ Extracts(f_line)
        THEN pj' = [pj EXCEPT !.pc = "failed", !.what = "Error reading manifest file"]
        ELSE IF ~ RawFileExists(SliceOf(f_line).raw_filename)
        THEN pj' = [pj EXCEPT !.pc = "failed", !.what = "File does not exist"]
        ELSE LET slices == Append(pj.m_Slices, SliceOf(f_line))
             IN pj' = [pj EXCEPT !.line = @ + 1,
                                 !.m_Slices = slices,
                                 !.m_SortedSlices = SortedSlices(ZPosOf(slices))]
  /\ UNCHANGED <<stage, cacheVars, rc, vm, vi>>

\* getline finds the end of the file: the manifest is loaded
ReadManifestEnd ==
  /\ stage = "init"
  /\ pj.pc = "reading"
  /\ pj.line > Len(pj.manifest)
  /\ pj' = [pj EXCEPT !.pc = "loaded"]
  /\ UNCHANGED <<stage, cacheVars, rc, vm, vi>>

\* The paths of the project files, as sprintf puts them together after the
\* project directory (lines 263-363)
GetFilenameForSlicePair(ref, mov, intent) ==
  IF intent = "AFFINE_MATRIX"
  THEN <<"recon/nbr/affine_ref_", ref.unique_id, "_mov_", mov.unique_id, ".mat">>
  ELSE <<"recon/nbr/affine_ref_", ref.unique_id, "_mov_", mov.unique_id, "_metric.txt">>

\* %02d of an iteration number
TwoDigits(iter) == <<"00", "01", "02", "03", "04", "05", "06", "07", "08", "09">>[iter + 1]

GetFilenameForSlice(slice, intent, iter) ==
  LET sid == slice.unique_id
      it == TwoDigits(iter)
  IN CASE intent = "ACCUM_MATRIX" -> <<"recon/accum/accum_affine_", sid, ".mat">>
       [] intent = "ACCUM_RESLICE" -> <<"recon/accum/accum_affine_", sid, "_reslice.", "ext">>
       [] intent = "VOL_INIT_MATRIX" -> <<"vol/match/affine_refvol_mov_", sid, ".mat">>
       [] intent = "VOL_SLIDE" -> <<"vol/slides/vol_slide_", sid, ".", "ext">>
       [] intent = "VOL_ITER_MATRIX" ->
            <<"vol/iter", it, "/affine_refvol_mov_", sid, "_iter", it, ".mat">>
       [] intent = "VOL_ITER_WARP" ->
            <<"vol/iter", it, "/warp_refvol_mov_", sid, "_iter", it, ".", "ext">>
       [] intent = "ITER_METRIC_DUMP" ->
            <<"vol/iter", it, "/metric_refvol_mov_", sid, "_iter", it, ".txt">>

GetFilenameForGlobal(intent) ==
  CASE intent = "VOL_MEDIAN_INIT_MATRIX" -> <<"vol/match/affine_refvol_median.mat">>
    [] intent = "MANIFEST_FILE" -> <<"config/manifest.txt">>

PjNext ==
  \/ ReadManifestLine
  \/ ReadManifestEnd

InitPj == stage = "init" /\ CacheIdle /\ rc = RcIdle /\ vm = VmIdle /\ vi = ViIdle /\ PjInit

SpecManifest == InitPj /\ [][PjNext]_vars

\* ------------------------------------------------------------------ ReconstructStack

\* 1.0 in the unit of the metric and of the edge weights
One == Pow(10, MetricDigits)

\* The normalised metrics the engine may report for a pair
EngineMetrics == {(9 * One) \div 10 - 4, (9 * One) \div 10}

\* DijkstraShortestPath<double>::INFINITE_WEIGHT and NO_PATH.  The doubles of
\* the model are scaled down: INFINITE_WEIGHT is +inf, what a sum or a product
\* too large for a double becomes.  It lies between the largest weights of an
\* edge over |dz| = FarZ - 1 and the sum of such a weight and one more edge,
\* so that products and sums of finite values both overflow within the z
\* positions of the model.
INFINITE_WEIGHT == 257 * Pow(10, 6)
NO_PATH == -1

\* a + b in doubles, a and b not negative
AddDouble(a, b) ==
  IF a >= INFINITE_WEIGHT \/ b >= INFINITE_WEIGHT THEN INFINITE_WEIGHT
  ELSE IF a + b >= INFINITE_WEIGHT THEN INFINITE_WEIGHT ELSE a + b

\* a * b in doubles, b not negative
MulDouble(a, b) ==
  IF a = 0 \/ b = 0 THEN 0
  ELSE IF Abs(a) >= INFINITE_WEIGHT \/ b >= INFINITE_WEIGHT
          \/ Abs(a) > INFINITE_WEIGHT \div b
       THEN IF a < 0 THEN -INFINITE_WEIGHT ELSE INFINITE_WEIGHT
       ELSE a * b

\* pow(b, e), b not negative, e a natural number
RECURSIVE PowDouble(_, _)
PowDouble(b, e) == IF e = 0 THEN 1 ELSE MulDouble(PowDouble(b, e - 1), b)

\* WalkGoesOn without the minimum of one neighbour
WalkInRangeOnly(n_added, gap, z_range) == gap < z_range

\* WalkGoesOn with a candidate at exactly z_range still taken
WalkUpToRange(n_added, gap, z_range) == n_added < 1 \/ gap <= z_range

\* One direction of the neighbour walk (lines 445-456 and 463-474): from the
\* slide at position p of the sorted index, candidates at q, q+dir, ...
WalkGoesOn(n_added, gap, z_range) == n_added < 1 \/ gap < z_range

RECURSIVE Walk(_, _, _, _, _, _, _)
Walk(z, order, p, q, dir, n_added, z_range) ==
  IF q >= 1 /\ q <= Len(order)
     /\ WalkGoesOn(n_added, Abs(z[order[p]] - z[order[q]]), z_range)
  THEN <<order[q]>> \o Walk(z, order, p, q + dir, dir, n_added + 1, z_range)
  ELSE <<>>

\* Inserted without the pass over the reversed index
InsertedForwardOnly(z, order, p, z_range) == Walk(z, order, p, p + 1, 1, 0, z_range)

\* Inserted with both walks starting at the slide itself
InsertedFromSelf(z, order, p, z_range) ==
  Walk(z, order, p, p, 1, 0, z_range) \o Walk(z, order, p, p, -1, 0, z_range)

\* What the slide at sorted position p inserts in the forward and backward pass
Inserted(z, order, p, z_range) ==
  Walk(z, order, p, p + 1, 1, 0, z_range) \o Walk(z, order, p, p - 1, -1, 0, z_range)

SeqRange(sq) == {sq[x] : x \in 1..Len(sq)}

\* slice_nbr after both passes (lines 437-475)
SliceNbr(z, z_range) ==
  LET order == SortedSlices(z)
  IN [k \in DOMAIN z |-> SeqRange(Inserted(z, order, PosOf(order, k), z_range))]

\* n_edges after both passes: one per insert call
NEdges(z, z_range) ==
  LET order == SortedSlices(z)
      RECURSIVE Sum(_)
      Sum(p) == IF p = 0 THEN 0 ELSE Len(Inserted(z, order, p, z_range)) + Sum(p - 1)
  IN Sum(Cardinality(DOMAIN z))

\* G_adjidx (lines 486-488): prefix sums of the neighbour set sizes
RECURSIVE AdjIdx(_, _)
AdjIdx(nbr, k) == IF k = 0 THEN 0 ELSE AdjIdx(nbr, k - 1) + Cardinality(nbr[k - 1])

\* G_adj with every row in the reverse of the set order
RECURSIVE AdjRowsReversed(_, _, _)
AdjRowsReversed(z, nbr, k) ==
  IF k = Cardinality(DOMAIN nbr) THEN <<>>
  ELSE LET row == SortedRefs(z, nbr[k])
       IN [x \in 1..Len(row) |-> row[Len(row) + 1 - x]] \o AdjRowsReversed(z, nbr, k + 1)

\* G_adj (lines 489-490): the rows in slide order, each in set order
RECURSIVE AdjRows(_, _, _)
AdjRows(z, nbr, k) ==
  IF k = Cardinality(DOMAIN nbr) THEN <<>>
  ELSE SortedRefs(z, nbr[k]) \o AdjRows(z, nbr, k + 1)

\* EdgeWeight with the exponent negated
EdgeWeightShrinking(pair_metric, z_epsilon, dz) ==
  (One - pair_metric) \div Pow(1 + z_epsilon, Abs(dz))

\* weight = (1.0 - pair_metric) * pow(1 + z_epsilon, fabs(dz))  (line 567)
EdgeWeight(pair_metric, z_epsilon, dz) ==
  MulDouble(One - pair_metric, PowDouble(1 + z_epsilon, Abs(dz)))

\* The nodes 0..n-1 of the graph handed to the solver: G_adjidx has n + 1
\* entries
GraphNodes(adjidx) == 0..(Cardinality(DOMAIN adjidx) - 2)

\* DijkstraShortestPath::ComputePathsFromSource (ShortestPath.h): classic
\* Dijkstra over the CSR arrays, ties in the queue by ascending node index
RECURSIVE DijkstraLoop(_, _, _, _, _, _)
DijkstraLoop(adjidx, adj, weight, dist, pred, open) ==
  LET cand == {v \in open : dist[v] < INFINITE_WEIGHT}
  IN IF cand = {} THEN [dist |-> dist, pred |-> pred]
     ELSE LET u == CHOOSE v \in cand : \A w \in cand \ {v} :
                     dist[v] < dist[w] \/ (dist[v] = dist[w] /\ v < w)
              slots(v) == {q \in adjidx[u]..(adjidx[u + 1] - 1) : adj[q + 1] = v}
              via(v) == MinOf({AddDouble(dist[u], weight[q + 1]) : q \in slots(v)})
              better(v) == v \in open \ {u} /\ slots(v) # {} /\ via(v) < dist[v]
          IN DijkstraLoop(adjidx, adj, weight,
                          Eager([v \in DOMAIN dist |-> IF better(v) THEN via(v) ELSE dist[v]]),
                          Eager([v \in DOMAIN dist |-> IF better(v) THEN u ELSE pred[v]]),
                          open \ {u})

\* ComputePathsFromSource that sets the arrays up and relaxes no edge
ComputePathsNoRelax(adjidx, adj, weight, source) ==
  [dist |-> [v \in GraphNodes(adjidx) |-> IF v = source THEN 0 ELSE INFINITE_WEIGHT],
   pred |-> [v \in GraphNodes(adjidx) |-> IF v = source THEN source ELSE NO_PATH]]

\* ComputePathsFromSource that takes as predecessor of a slide the last slide
\* of its row, no distance being compared
ComputePathsLastNbr(adjidx, adj, weight, source) ==
  [dist |-> [v \in GraphNodes(adjidx) |-> IF v = source THEN 0 ELSE INFINITE_WEIGHT],
   pred |-> [v \in GraphNodes(adjidx) |->
               IF v = source \/ adjidx[v + 1] = adjidx[v] THEN source
               ELSE adj[adjidx[v + 1]]]]

ComputePathsFromSource(adjidx, adj, weight, source) ==
  DijkstraLoop(adjidx, adj, weight,
               [v \in GraphNodes(adjidx) |-> IF v = source THEN 0 ELSE INFINITE_WEIGHT],
               [v \in GraphNodes(adjidx) |-> IF v = source THEN source ELSE NO_PATH],
               GraphNodes(adjidx))

\* root_dist (lines 585-587)
RECURSIVE SumDist(_, _)
SumDist(dist, j) == IF j = 0 THEN 0 ELSE AddDouble(SumDist(dist, j - 1), dist[j - 1])

RootDist(adjidx, adj, weight, i) ==
  SumDist(ComputePathsFromSource(adjidx, adj, weight, i).dist,
          Cardinality(GraphNodes(adjidx)))

\* NewRoot that keeps the first slide whatever the totals
NewRootFirstOnly(i, best_root_dist, root_dist) == i = 0

\* NewRoot with a later slide taking over on an equal total
NewRootOnTie(i, best_root_dist, root_dist) == i = 0 \/ best_root_dist >= root_dist

\* if(i == 0 || best_root_dist > root_dist)  (line 589)
NewRoot(i, best_root_dist, root_dist) == i = 0 \/ best_root_dist > root_dist

\* The loop of lines 582-594 over slides 0..i-1, root_dist[j] being the total
\* distance from slide j: [i_root, best_root_dist]
RECURSIVE RootLoop(_, _)
RootLoop(root_dist, i) ==
  IF i = 0 THEN [i_root |-> 0, best_root_dist |-> 0]
  ELSE LET before == RootLoop(root_dist, i - 1)
       IN IF NewRoot(i - 1, before.best_root_dist, root_dist[i - 1])
          THEN [i_root |-> i - 1, best_root_dist |-> root_dist[i - 1]]
          ELSE before

\* i_root when line 597 is reached
ChosenRoot(adjidx, adj, weight) ==
  RootLoop(Eager([i \in GraphNodes(adjidx) |-> RootDist(adjidx, adj, weight, i)]),
           Cardinality(GraphNodes(adjidx))).i_root

\* The chain of slide i (lines 629-650): matrices are words over the pairwise
\* transforms, t_accum * t_step appends the step; the identity is <<>>
RECURSIVE Chain(_, _, _)
Chain(pred, i_curr, t_accum) ==
  LET i_prev == pred[i_curr]
  IN IF i_prev # NO_PATH /\ i_prev # i_curr
     THEN Chain(pred, i_prev, Append(t_accum, <<i_prev, i_curr>>))
     ELSE t_accum

\* The AFFINE_MATRIX files the chain of slide i reads
ChainReads(pred, i) ==
  {FnPair("AFFINE_MATRIX", e[1], e[2]) : e \in SeqRange(Chain(pred, i, <<>>))}

\* The project files a run reads and writes: the set of existing paths and
\* the contents the model follows
NoProjectFiles ==
  [files |-> {},
   metric_txt |-> [e \in Pairs |-> 0],
   accum_mat |-> [k \in Slides |-> <<>>],
   reslice_of |-> [k \in Slides |-> <<>>]]

\* The locals of ReconstructStack before its first statement; affine_runs
\* records the (reference, moving) pairs greedy_api.RunAffine was called for
\* (line 554)
RcLocals ==
  [slice_nbr |-> [k \in Slides |-> {}],
   affine_runs |-> {},
   n_edges |-> 0,
   G_adjidx |-> [k \in 0..NSlides |-> 0],
   G_adj |-> <<>>,
   G_edge_weight |-> <<>>,
   pos |-> 1,
   n_pos |-> 0,
   i_root |-> 0,
   dist |-> [k \in Slides |-> 0],
   pred |-> [k \in Slides |-> 0],
   i |-> 0]

\* recon(): a project restored from its manifest, nothing reconstructed yet
RcInit ==
  \E z \in [Slides -> ZValues], zr \in 0..MaxZRange, ze \in 0..MaxZEpsilon, ru \in BOOLEAN :
    rc = [pc |-> "nbr", run |-> 1, z_pos |-> z, m_SortedSlices |-> SortedSlices(z),
          z_range |-> zr, z_epsilon |-> ze,
          reuse |-> ru, first_reuse |-> ru,
          disk |-> NoProjectFiles, after_first |-> NoProjectFiles, loc |-> RcLocals]

RcOrder == rc.m_SortedSlices

\* The first (pos, n_pos) at or after the given one that names a neighbour
RECURSIVE Cursor(_, _, _)
Cursor(nbr, pos, n_pos) ==
  IF pos > NSlides THEN [pos |-> pos, n_pos |-> 0]
  ELSE IF n_pos < Cardinality(nbr[RcOrder[pos]]) THEN [pos |-> pos, n_pos |-> n_pos]
  ELSE Cursor(nbr, pos + 1, 0)

\* Lines 437-491: both passes over the sorted index, then the CSR arrays
BuildNeighborGraph ==
  /\ stage = "recon"
  /\ rc.pc = "nbr"
  /\ LET nbr == SliceNbr(rc.z_pos, rc.z_range)
         n == NEdges(rc.z_pos, rc.z_range)
         c == Cursor(nbr, 1, 0)
     IN rc' = [rc EXCEPT
          !.pc = IF c.pos > NSlides THEN "root" ELSE "pair",
          !.loc = [@ EXCEPT
             !.slice_nbr = nbr,
             !.n_edges = n,
             !.G_adjidx = [k \in 0..NSlides |-> AdjIdx(nbr, k)],
             !.G_adj = AdjRows(rc.z_pos, nbr, 0),
             !.G_edge_weight = [q \in 1..n |-> INFINITE_WEIGHT],
             !.pos = c.pos,
             !.n_pos = c.n_pos]]
  /\ UNCHANGED <<stage, cacheVars, vm, vi, pj>>

\* The registration the cursor is at: reference it.second, moving it_n.second
RcRef == RcOrder[rc.loc.pos]
RcMov == SortedRefs(rc.z_pos, rc.loc.slice_nbr[RcRef])[rc.loc.n_pos + 1]

\* Lines 566-570 and the loop increments: record the weight, go to the next pair
RecordEdge(r, pair_metric) ==
  LET weight == EdgeWeight(pair_metric, r.z_epsilon, r.z_pos[RcMov] - r.z_pos[RcRef])
      c == Cursor(r.loc.slice_nbr, r.loc.pos, r.loc.n_pos + 1)
  IN [r EXCEPT
       !.pc = IF c.pos > NSlides THEN "root" ELSE "pair",
       !.loc = [@ EXCEPT
          !.G_edge_weight = [@ EXCEPT ![r.loc.G_adjidx[RcRef] + r.loc.n_pos + 1] = weight],
          !.pos = c.pos,
          !.n_pos = c.n_pos]]

\* Lines 512-571, one neighbour: reuse the stored result or run the engine
RegisterPair ==
  /\ stage = "recon"
  /\ rc.pc = "pair"
  /\ LET fn_matrix == FnPair("AFFINE_MATRIX", RcRef, RcMov)
         fn_metric == FnPair("METRIC_VALUE", RcRef, RcMov)
     IN IF CanSkipFile(rc.reuse, rc.disk.files, fn_matrix)
           /\ CanSkipFile(rc.reuse, rc.disk.files, fn_metric)
        THEN rc' = RecordEdge(rc, ParseMetric(rc.disk.metric_txt[<<RcRef, RcMov>>]))
        ELSE \E pair_metric \in EngineMetrics :
               rc' = RecordEdge(
                       [rc EXCEPT
                          !.loc = [@ EXCEPT !.affine_runs = @ \cup {<<RcRef, RcMov>>}],
                          !.disk = [@ EXCEPT
                             !.files = @ \cup {fn_matrix, fn_metric},
                             !.metric_txt = [@ EXCEPT ![<<RcRef, RcMov>>] =
                                                FormatMetric(pair_metric)]]],
                       pair_metric)
  /\ UNCHANGED <<stage, cacheVars, vm, vi, pj>>

\* greedy_api.RunAffine throws: the exception leaves ReconstructStack and
\* main returns -1 (lines 1293-1298)
RegisterPairThrows ==
  /\ stage = "recon"
  /\ rc.pc = "pair"
  /\ ~ (CanSkipFile(rc.reuse, rc.disk.files, FnPair("AFFINE_MATRIX", RcRef, RcMov))
        /\ CanSkipFile(rc.reuse, rc.disk.files, FnPair("METRIC_VALUE", RcRef, RcMov)))
  /\ rc' = [rc EXCEPT !.pc = "aborted",
                       !.loc = [@ EXCEPT !.affine_runs = @ \cup {<<RcRef, RcMov>>}]]
  /\ UNCHANGED <<stage, cacheVars, vm, vi, pj>>

\* Lines 574-597: the root of the tree, then the paths from it
SelectRoot ==
  /\ stage = "recon"
  /\ rc.pc = "root"
  /\ LET l == rc.loc
         root == ChosenRoot(l.G_adjidx, l.G_adj, l.G_edge_weight)
         paths == ComputePathsFromSource(l.G_adjidx, l.G_adj, l.G_edge_weight, root)
     IN rc' = [rc EXCEPT
          !.pc = "accum",
          !.loc = [@ EXCEPT !.i_root = root, !.dist = paths.dist,
                            !.pred = paths.pred, !.i = 0]]
  /\ UNCHANGED <<stage, cacheVars, vm, vi, pj>>

\* Lines 654-687 for slide i: write the accumulated matrix, reslice unless
\* the resliced image can be skipped
WriteAccum(reuse, disk, i, t_accum) ==
  LET fn_accum_matrix == FnSlice("ACCUM_MATRIX", i)
      fn_accum_reslice == FnSlice("ACCUM_RESLICE", i)
  IN [disk EXCEPT
        !.files = @ \cup {fn_accum_matrix, fn_accum_reslice},
        !.accum_mat = [@ EXCEPT ![i] = t_accum],
        !.reslice_of = [@ EXCEPT ![i] =
           IF CanSkipFile(reuse, disk.files, fn_accum_reslice) THEN @ ELSE t_accum]]

\* The loop of lines 626-688 from slide i on: [disk, ok]; ok is FALSE when
\* ReadAffineMatrix found no file to read and threw
RECURSIVE AccumLoop(_, _, _, _)
AccumLoop(reuse, pred, disk, i) ==
  IF i = NSlides THEN [disk |-> disk, ok |-> TRUE]
  ELSE IF ChainReads(pred, i) \subseteq disk.files
  THEN AccumLoop(reuse, pred, WriteAccum(reuse, disk, i, Chain(pred, i, <<>>)), i + 1)
  ELSE [disk |-> disk, ok |-> FALSE]

\* Lines 599-688: the chain of every slide
ComposeChains ==
  /\ stage = "recon"
  /\ rc.pc = "accum"
  /\ LET out == AccumLoop(rc.reuse, rc.loc.pred, rc.disk, 0)
     IN rc' = [rc EXCEPT
          !.pc = IF out.ok THEN "done" ELSE "aborted",
          !.disk = out.disk,
          !.loc = [@ EXCEPT !.i = NSlides]]
  /\ UNCHANGED <<stage, cacheVars, vm, vi, pj>>

\* recon is run again on the project the first run left
ReconAgain ==
  /\ stage = "recon"
  /\ rc.pc = "done"
  /\ rc.run = 1
  /\ \E ru \in BOOLEAN :
       rc' = [rc EXCEPT !.pc = "nbr", !.run = 2, !.reuse = ru,
                        !.after_first = rc.disk, !.loc = RcLocals]
  /\ UNCHANGED <<stage, cacheVars, vm, vi, pj>>

ReconNext ==
  \/ BuildNeighborGraph
  \/ RegisterPair
  \/ RegisterPairThrows
  \/ SelectRoot
  \/ ComposeChains
  \/ ReconAgain

InitRecon == stage = "recon" /\ CacheIdle /\ RcInit /\ vm = VmIdle /\ vi = ViIdle /\ pj = PjIdle

SpecRecon == InitRecon /\ [][ReconNext]_vars

\* The neighbour graph alone: ReconstructStack up to line 491
SpecNbr == InitRecon /\ [][BuildNeighborGraph]_vars


\* ------------------------------------------------------------------ ReconstructStack, other stack sizes

\* The graph, the weights and the root of ReconstructStack on stacks of two
\* and of five slides; the files are not followed here.
StackSizes == {2, 5}

\* The manifests: two slides at any z positions, five slides at z = 0..4 in
\* manifest order
StackManifests(n) ==
  IF n = 2 THEN [0..1 -> ZValues] ELSE {[k \in 0..(n - 1) |-> k]}

\* The normalised metrics the engine may report for a pair of these stacks
StackMetrics == {(9 * One) \div 10, One}

\* The slide whose row of the CSR arrays holds slot q (counted from 1)
SlotRef(adjidx, q) ==
  CHOOSE k \in GraphNodes(adjidx) : adjidx[k] < q /\ q <= adjidx[k + 1]

\* recon() on such a stack
StackInit ==
  \E n \in StackSizes, zr \in 0..MaxZRange, ze \in 0..MaxZEpsilon :
    \E z \in StackManifests(n) :
      rc = [pc |-> "nbr", n |-> n, z_pos |-> z, z_range |-> zr, z_epsilon |-> ze,
            loc |-> [slice_nbr |-> <<>>, n_edges |-> 0, G_adjidx |-> <<>>, G_adj |-> <<>>,
                     G_edge_weight |-> <<>>, pair_metric |-> <<>>, i_root |-> 0,
                     pred |-> <<>>]]

\* Lines 437-491: both passes over the sorted index, then the CSR arrays
StackBuildGraph ==
  /\ stage = "stack"
  /\ rc.pc = "nbr"
  /\ LET nbr == SliceNbr(rc.z_pos, rc.z_range)
         n == NEdges(rc.z_pos, rc.z_range)
     IN rc' = [rc EXCEPT
          !.pc = "pair",
          !.loc = [@ EXCEPT
             !.slice_nbr = nbr,
             !.n_edges = n,
             !.G_adjidx = [k \in 0..rc.n |-> AdjIdx(nbr, k)],
             !.G_adj = AdjRows(rc.z_pos, nbr, 0),
             !.G_edge_weight = [q \in 1..n |-> INFINITE_WEIGHT]]]
  /\ UNCHANGED <<cacheVars, stage, vm, vi, pj>>

\* Lines 502-572, all of them: one registration per slot, each with the
\* metric the engine reports for it
StackRegisterPairs ==
  /\ stage = "stack"
  /\ rc.pc = "pair"
  /\ \E pair_metric \in [1..rc.loc.n_edges -> StackMetrics] :
       rc' = [rc EXCEPT
          !.pc = "root",
          !.loc = [@ EXCEPT
             !.pair_metric = pair_metric,
             !.G_edge_weight =
                [q \in 1..rc.loc.n_edges |->
                   EdgeWeight(pair_metric[q], rc.z_epsilon,
                              rc.z_pos[rc.loc.G_adj[q]]
                                - rc.z_pos[SlotRef(rc.loc.G_adjidx, q)])]]]
  /\ UNCHANGED <<cacheVars, stage, vm, vi, pj>>

\* Lines 575-597: the root, then the paths from it
StackSelectRoot ==
  /\ stage = "stack"
  /\ rc.pc = "root"
  /\ LET l == rc.loc
         root == ChosenRoot(l.G_adjidx, l.G_adj, l.G_edge_weight)
     IN rc' = [rc EXCEPT
          !.pc = "done",
          !.loc = [@ EXCEPT
             !.i_root = root,
             !.pred = ComputePathsFromSource(l.G_adjidx, l.G_adj, l.G_edge_weight,
                                             root).pred]]
  /\ UNCHANGED <<cacheVars, stage, vm, vi, pj>>

StackNext ==
  \/ StackBuildGraph
  \/ StackRegisterPairs
  \/ StackSelectRoot

InitStack == stage = "stack" /\ CacheIdle /\ StackInit /\ vm = VmIdle /\ vi = ViIdle /\ pj = PjIdle

SpecStack == InitStack /\ [][StackNext]_vars

\* ------------------------------------------------------------------ InitialMatchToVolume

\* Matrices of the volume match are 2 x 2, row by row: <<a, b, c, d>>.  The
\* matrix that is not there (no file) is the empty tuple.
NoMat == <<>>
MatI == <<1, 0, 0, 1>>

\* vnl_matrix operator*
MatMul(x, y) ==
  <<x[1] * y[1] + x[2] * y[3], x[1] * y[2] + x[2] * y[4],
    x[3] * y[1] + x[4] * y[3], x[3] * y[2] + x[4] * y[4]>>

\* (x - y).array_one_norm(): the sum of the absolute values of the entries
ArrayOneNorm(x, y) ==
  Abs(x[1] - y[1]) + Abs(x[2] - y[2]) + Abs(x[3] - y[3]) + Abs(x[4] - y[4])

\* The matrices RunAffine may write as VOL_INIT_MATRIX of a slide
VolMats == {MatI, <<1, 10, 0, 1>>, <<2, 0, 0, 1>>}

\* The VOL_INIT_MATRIX an earlier volmatch left
EarlierVolMat == <<1, 4, 0, 1>>

\* The matrices recon may have written as ACCUM_MATRIX of a slide
AccumMats == {MatI, <<0, -1, 1, 0>>}

\* GetFilenameForGlobal: a path that names no slide
FnGlobal(intent) == <<intent, NSlides, NSlides>>

\* row_sums (lines 804-815): aff_dist times the vector of ones
RECURSIVE RowSum(_, _, _)
RowSum(vol_affine, i, j) ==
  IF j = 0 THEN 0
  ELSE RowSum(vol_affine, i, j - 1) + ArrayOneNorm(vol_affine[i], vol_affine[j - 1])

RowSums(vol_affine) == Eager([i \in Slides |-> RowSum(vol_affine, i, NSlides)])

\* std::find taken from the end
FindLast(row_sums, value) ==
  CHOOSE i \in Slides : row_sums[i] = value /\ \A j \in Slides : row_sums[j] = value => j <= i

\* std::find(row_sums.begin(), row_sums.end(), value) - row_sums.begin()
FindFirst(row_sums, value) ==
  CHOOSE i \in Slides : row_sums[i] = value /\ \A j \in Slides : row_sums[j] = value => i <= j

\* idx_best (lines 818-820)
IdxBest(vol_affine) ==
  LET row_sums == RowSums(vol_affine)
  IN FindFirst(row_sums, MinOf({row_sums[i] : i \in Slides}))

\* M_vol with the factors the other way round
MVolSwapped(M_root, median_affine) == MatMul(median_affine, M_root)

\* M_vol = M_root * median_affine (line 834)
MVol(M_root, median_affine) == MatMul(M_root, median_affine)

\* volmatch(): a reconstructed project; an earlier volmatch may have left the
\* VOL_SLIDE and VOL_INIT_MATRIX files of some slides
VmInit ==
  \E ru \in BOOLEAN, acc \in [Slides -> AccumMats], old \in SUBSET Slides :
    vm = [pc |-> "match", reuse |-> ru, i |-> 0, idx_best |-> 0,
          disk |-> [files |-> {FnSlice("VOL_SLIDE", k) : k \in old}
                              \cup {FnSlice("VOL_INIT_MATRIX", k) : k \in old},
                    ACCUM_MATRIX |-> acc,
                    VOL_INIT_MATRIX |-> [k \in Slides |-> IF k \in old THEN EarlierVolMat
                                                          ELSE NoMat],
                    VOL_MEDIAN_INIT_MATRIX |-> NoMat,
                    VOL_ITER_MATRIX |-> [k \in Slides |-> NoMat]]]

\* Lines 755-760: both files of slide i are there and reuse is on
SlideMatched ==
  /\ CanSkipFile(vm.reuse, vm.disk.files, FnSlice("VOL_SLIDE", vm.i))
  /\ CanSkipFile(vm.reuse, vm.disk.files, FnSlice("VOL_INIT_MATRIX", vm.i))

\* Lines 752-792, one slide: nothing to do
SkipMatch ==
  /\ stage = "match"
  /\ vm.pc = "match"
  /\ SlideMatched
  /\ vm' = [vm EXCEPT !.i = @ + 1, !.pc = IF vm.i + 1 = NSlides THEN "median" ELSE "match"]
  /\ UNCHANGED <<stage, cacheVars, rc, vi, pj>>

\* Lines 752-792, one slide: the slice is extracted and written, the slide is
\* registered to it
MatchSlide ==
  /\ stage = "match"
  /\ vm.pc = "match"
  /\ ~ SlideMatched
  /\ \E mat \in VolMats :
       vm' = [vm EXCEPT
                !.i = @ + 1,
                !.pc = IF vm.i + 1 = NSlides THEN "median" ELSE "match",
                !.disk = [@ EXCEPT
                   !.files = @ \cup {FnSlice("VOL_SLIDE", vm.i),
                                     FnSlice("VOL_INIT_MATRIX", vm.i)},
                   !.VOL_INIT_MATRIX = [@ EXCEPT ![vm.i] = mat]]]
  /\ UNCHANGED <<stage, cacheVars, rc, vi, pj>>

\* RunAffine throws after the slice is written: main returns -1
MatchSlideThrows ==
  /\ stage = "match"
  /\ vm.pc = "match"
  /\ ~ SlideMatched
  /\ vm' = [vm EXCEPT
              !.pc = "aborted",
              !.disk = [@ EXCEPT !.files = @ \cup {FnSlice("VOL_SLIDE", vm.i)}]]
  /\ UNCHANGED <<stage, cacheVars, rc, vi, pj>>

\* Lines 794-826: the matrices are read back, the medoid is found and written
WriteMedian ==
  /\ stage = "match"
  /\ vm.pc = "median"
  /\ LET vol_affine == vm.disk.VOL_INIT_MATRIX
         idx_best == IdxBest(vol_affine)
     IN vm' = [vm EXCEPT
                 !.pc = "initial",
                 !.idx_best = idx_best,
                 !.disk = [@ EXCEPT
                    !.files = @ \cup {FnGlobal("VOL_MEDIAN_INIT_MATRIX")},
                    !.VOL_MEDIAN_INIT_MATRIX = vol_affine[idx_best]]]
  /\ UNCHANGED <<stage, cacheVars, rc, vi, pj>>

\* Lines 828-838: the iteration-0 transform of every slide
WriteInitial ==
  /\ stage = "match"
  /\ vm.pc = "initial"
  /\ LET median_affine == vm.disk.VOL_INIT_MATRIX[vm.idx_best]
     IN vm' = [vm EXCEPT
                 !.pc = "done",
                 !.disk = [@ EXCEPT
                    !.VOL_ITER_MATRIX =
                       [k \in Slides |-> MVol(vm.disk.ACCUM_MATRIX[k], median_affine)]]]
  /\ UNCHANGED <<stage, cacheVars, rc, vi, pj>>

MatchNext ==
  \/ SkipMatch
  \/ MatchSlide
  \/ MatchSlideThrows
  \/ WriteMedian
  \/ WriteInitial

InitMatch == stage = "match" /\ CacheIdle /\ rc = RcIdle /\ VmInit /\ vi = ViIdle /\ pj = PjIdle

SpecMatch == InitMatch /\ [][MatchNext]_vars

\* ------------------------------------------------------------------ IterativeMatchToVolume

MaxIter == 2         \* n_affine + n_deform is at most this
HashMod == 101       \* transform contents are numbers below this
MaxRuns == 2         \* voliter runs on one project: the first and one resumption

\* The content of a file that does not exist (FileExists is false)
NoFile == -1

IterKeys == Slides \X (0..MaxIter)

\* A transform or metric file of the vol/iterXX directory
IterFile(intent, k, iter) == [intent |-> intent, slide |-> k, iter |-> iter]

FileContent(disk, f) == disk[f.intent][<<f.slide, f.iter>>]

FilePresent(disk, f) == FileContent(disk, f) # NoFile

\* CanSkipFile that never lets work be skipped
CanSkipNever(reuse, disk, f) == FALSE

\* CanSkipFile without the look at the file system
CanSkipAlways(reuse, disk, f) == reuse

\* StackGreedyProject::CanSkipFile on an iteration file
CanSkipIterFile(reuse, disk, f) == reuse /\ FilePresent(disk, f)

\* fn_result taken from the iteration before
ResultFileOfPrevious(k, iter, n_affine) == IterFile("VOL_ITER_MATRIX", k, iter - 1)

\* fn_result taken for a matrix at every iteration
ResultFileMatrixOnly(k, iter, n_affine) == IterFile("VOL_ITER_MATRIX", k, iter)

\* fn_result (lines 880-883)
ResultFile(k, iter, n_affine) ==
  IF iter <= n_affine THEN IterFile("VOL_ITER_MATRIX", k, iter)
  ELSE IterFile("VOL_ITER_WARP", k, iter)

\* k_nbr (lines 905-915): the slides just before and just after k in the
\* sorted index, in set order
KNbr(sorted, k) ==
  LET p == PosOf(sorted, k)
  IN (IF p > 1 THEN <<sorted[p - 1]>> ELSE <<>>)
     \o (IF p < Len(sorted) THEN <<sorted[p + 1]>> ELSE <<>>)

\* NbrTransforms taking the neighbour's transform of the iteration under way
\* when it is already there
NbrTransformsFresh(disk, j, iter, n_affine) ==
  IF FilePresent(disk, ResultFile(j, iter, n_affine))
  THEN <<ResultFile(j, iter, n_affine)>>
  ELSE IF iter - 1 <= n_affine
  THEN <<IterFile("VOL_ITER_MATRIX", j, iter - 1)>>
  ELSE <<IterFile("VOL_ITER_WARP", j, iter - 1), IterFile("VOL_ITER_MATRIX", j, n_affine)>>

\* NbrTransforms without the frozen affine after a deformable iteration
NbrTransformsWarpOnly(disk, j, iter, n_affine) ==
  IF iter - 1 <= n_affine
  THEN <<IterFile("VOL_ITER_MATRIX", j, iter - 1)>>
  ELSE <<IterFile("VOL_ITER_WARP", j, iter - 1)>>

\* reslice_param.transforms of neighbour j (lines 948-960)
NbrTransforms(disk, j, iter, n_affine) ==
  IF iter - 1 <= n_affine
  THEN <<IterFile("VOL_ITER_MATRIX", j, iter - 1)>>
  ELSE <<IterFile("VOL_ITER_WARP", j, iter - 1), IterFile("VOL_ITER_MATRIX", j, n_affine)>>

\* affine_init_transform (line 984) or moving_pre_transforms (line 998)
OwnTransform(k, iter, n_affine) ==
  IF iter <= n_affine THEN IterFile("VOL_ITER_MATRIX", k, iter - 1)
  ELSE IterFile("VOL_ITER_MATRIX", k, n_affine)

RECURSIVE NbrReads(_, _, _, _, _)
NbrReads(disk, nbrs, x, iter, n_affine) ==
  IF x > Len(nbrs) THEN <<>>
  ELSE NbrTransforms(disk, nbrs[x], iter, n_affine) \o NbrReads(disk, nbrs, x + 1, iter, n_affine)

\* The transform files the loop body reads for slide k, in the order of use
SlideReads(disk, sorted, k, iter, n_affine) ==
  NbrReads(disk, KNbr(sorted, k), 1, iter, n_affine) \o <<OwnTransform(k, iter, n_affine)>>

\* The engine is deterministic: what it writes is a function of the images
\* and transforms it is given.  Mix folds one input into a content.
Mix(acc, v) == (acc * 7 + v + 1) % HashMod

RECURSIVE MixAll(_, _, _, _)
MixAll(disk, reads, x, acc) ==
  IF x > Len(reads) THEN acc
  ELSE MixAll(disk, reads, x + 1, Mix(Mix(acc, reads[x].slide), FileContent(disk, reads[x])))

\* What RunAffine / RunDeformable writes to param_reg.output for slide k
EngineOutput(disk, sorted, k, iter, n_affine) ==
  MixAll(disk, SlideReads(disk, sorted, k, iter, n_affine), 1,
         Mix(k, IF iter <= n_affine THEN 0 ELSE 1))

\* The content of the metric dump of a slide (its text is not followed)
DumpText == 0

\* Lines 889-1016 when every file is there and the engine succeeds
RegisterSlide(disk, sorted, k, iter, n_affine) ==
  LET out == ResultFile(k, iter, n_affine)
  IN [disk EXCEPT
        ![out.intent] = [@ EXCEPT ![<<out.slide, out.iter>>] =
                                     EngineOutput(disk, sorted, k, iter, n_affine)],
        !["ITER_METRIC_DUMP"] = [@ EXCEPT ![<<k, iter>>] = DumpText]]

\* The transform files slide k needs and does not find
MissingReads(disk, sorted, k, iter, n_affine) ==
  {f \in SeqRange(SlideReads(disk, sorted, k, iter, n_affine)) : ~ FilePresent(disk, f)}

\* The engine's exception caught in the loop body, the loop going on
OnEngineErrorContinue == "slides"

\* What main does with an exception of the engine (lines 1293-1298): it
\* prints it and returns -1
OnEngineError == "aborted"

\* recon and volmatch have written their files and the iteration-0 matrix of
\* every slide (contents told apart by slide); the files of
\* the iterations 1..have are there from an earlier voliter, except the one of
\* slide hole at iteration have (hole = NSlides: none is missing)
StaleContent(k, iter) == HashMod - 1 - k - NSlides * iter

EarlierDisk(n_affine, have, hole) ==
  LET there(k, iter) == iter >= 1 /\ iter <= have /\ ~ (iter = have /\ k = hole)
  IN [VOL_ITER_MATRIX |->
        [e \in IterKeys |->
           IF e[2] = 0 THEN e[1] + 1
           ELSE IF there(e[1], e[2]) /\ e[2] <= n_affine THEN StaleContent(e[1], e[2])
           ELSE NoFile],
      VOL_ITER_WARP |->
        [e \in IterKeys |->
           IF there(e[1], e[2]) /\ e[2] > n_affine THEN StaleContent(e[1], e[2])
           ELSE NoFile],
      ITER_METRIC_DUMP |->
        [e \in IterKeys |-> IF there(e[1], e[2]) THEN DumpText ELSE NoFile],
      ACCUM_MATRIX |-> [k \in Slides |-> k + 1],
      ACCUM_RESLICE |-> [k \in Slides |-> k + 1],
      VOL_SLIDE |-> [k \in Slides |-> k + 1],
      VOL_INIT_MATRIX |-> [k \in Slides |-> k + 1],
      VOL_MEDIAN_INIT_MATRIX |-> 1]

\* The manifests the refiner is run on: slide s at z = (s + r) % NSlides
IterManifests == {[k \in Slides |-> (k + r) % NSlides] : r \in 0..1}

\* voliter(): the command line is parsed, the project restored
ViInit ==
  \E na \in 0..MaxIter, nd \in 0..MaxIter, rf \in 0..(MaxIter + 1), rl \in 0..(MaxIter + 1),
     ru \in BOOLEAN, z \in IterManifests, have \in 0..MaxIter, hole \in 0..NSlides :
    /\ na + nd >= 1 /\ na + nd <= MaxIter
    /\ have <= na + nd
    /\ have = 0 => hole = NSlides
    /\ vi = [pc |-> "start", run |-> 1, reuse |-> ru, first_reuse |-> ru,
             n_affine |-> na, n_deform |-> nd, i_first |-> rf, i_last |-> rl,
             m_SortedSlices |-> SortedSlices(z),
             disk |-> EarlierDisk(na, have, hole),
             disk0 |-> EarlierDisk(na, have, hole),
             iter |-> 0, ordering |-> <<>>, failed |-> <<>>]

\* The iteration loop starting at 1 whatever the range
LoopStartAtOne(i_first) == 1

\* Line 865: for(unsigned int iter = i_first; ...)
LoopStart(i_first) == i_first

\* The range check without the comparison of its two ends
RangeRejectedUnordered(i_first, i_last, n_affine, n_deform) ==
  i_first = 0 \/ i_last > n_affine + n_deform

\* Line 860: the condition of the throw
RangeRejected(i_first, i_last, n_affine, n_deform) ==
  i_first > i_last \/ i_first = 0 \/ i_last > n_affine + n_deform

\* Lines 1207-1212 and 859-865: the default range, the range check, the
\* first shuffle
VoliterStart ==
  /\ stage = "iter"
  /\ vi.pc = "start"
  /\ LET dflt == vi.i_first = 0 /\ vi.i_last = 0
         i_first == IF dflt THEN 1 ELSE vi.i_first
         i_last == IF dflt THEN vi.n_affine + vi.n_deform ELSE vi.i_last
     IN IF RangeRejected(i_first, i_last, vi.n_affine, vi.n_deform)
        THEN vi' = [vi EXCEPT !.pc = "rejected", !.i_first = i_first, !.i_last = i_last]
        ELSE vi' = [vi EXCEPT !.pc = "slides", !.i_first = i_first, !.i_last = i_last,
                              !.iter = LoopStart(i_first), !.ordering = <<>>]
  /\ UNCHANGED <<stage, cacheVars, rc, vm, pj>>

\* random_shuffle (lines 867-870): any permutation of the slides.  ordering
\* holds the part of the permutation the loop has gone through; Todo is what
\* is still to come, in an order not yet looked at.
Todo(v) == Slides \ SeqRange(v.ordering)

\* The loop going on to the next iteration as soon as one slide is done
AfterSlideNoBarrier(v, k) ==
  IF v.iter < v.i_last THEN [v EXCEPT !.iter = @ + 1, !.ordering = <<>>]
  ELSE [v EXCEPT !.pc = "done", !.ordering = <<>>]

\* The loop goes on after slide k: the next slide of the ordering, the next
\* iteration with a new shuffle, or the end (lines 865-877, 1019-1021)
AfterSlide(v, k) ==
  IF Len(v.ordering) + 1 < NSlides THEN [v EXCEPT !.ordering = Append(@, k)]
  ELSE IF v.iter < v.i_last THEN [v EXCEPT !.iter = @ + 1, !.ordering = <<>>]
  ELSE [v EXCEPT !.pc = "done", !.ordering = <<>>]

\* Lines 879-887: the result is there and reuse is on
SkipSlide(k) ==
  /\ stage = "iter"
  /\ vi.pc = "slides"
  /\ k \in Todo(vi)
  /\ CanSkipIterFile(vi.reuse, vi.disk, ResultFile(k, vi.iter, vi.n_affine))
  /\ vi' = AfterSlide(vi, k)
  /\ UNCHANGED <<stage, cacheVars, rc, vm, pj>>

\* Lines 889-1016: slide k is registered and its result written
ProcessSlide(k) ==
  /\ stage = "iter"
  /\ vi.pc = "slides"
  /\ k \in Todo(vi)
  /\ ~ CanSkipIterFile(vi.reuse, vi.disk, ResultFile(k, vi.iter, vi.n_affine))
  /\ MissingReads(vi.disk, vi.m_SortedSlices, k, vi.iter, vi.n_affine) = {}
  /\ vi' = AfterSlide(
             [vi EXCEPT !.disk = RegisterSlide(vi.disk, vi.m_SortedSlices, k,
                                               vi.iter, vi.n_affine)], k)
  /\ UNCHANGED <<stage, cacheVars, rc, vm, pj>>

\* Lines 889-1006 when the engine throws: a transform file it is told to read
\* is not there, or the registration itself fails
ProcessSlideThrows(k) ==
  /\ stage = "iter"
  /\ vi.pc = "slides"
  /\ k \in Todo(vi)
  /\ ~ CanSkipIterFile(vi.reuse, vi.disk, ResultFile(k, vi.iter, vi.n_affine))
  /\ vi' = [vi EXCEPT
              !.pc = OnEngineError,
              !.failed = <<[slide |-> k, iter |-> vi.iter,
                            missing |-> MissingReads(vi.disk, vi.m_SortedSlices, k,
                                                     vi.iter, vi.n_affine)]>>]
  /\ UNCHANGED <<stage, cacheVars, rc, vm, pj>>

\* The process is killed between two slides
Interrupt ==
  /\ stage = "iter"
  /\ vi.pc = "slides"
  /\ vi.run < MaxRuns
  /\ vi' = [vi EXCEPT !.pc = "killed"]
  /\ UNCHANGED <<stage, cacheVars, rc, vm, pj>>

\* The process is killed while slide k is registered: the engine has written
\* its result (lines 977-1006), the metric dump of lines 1013-1015 is not
\* written yet
InterruptInSlide(k) ==
  /\ stage = "iter"
  /\ vi.pc = "slides"
  /\ vi.run < MaxRuns
  /\ k \in Todo(vi)
  /\ ~ CanSkipIterFile(vi.reuse, vi.disk, ResultFile(k, vi.iter, vi.n_affine))
  /\ MissingReads(vi.disk, vi.m_SortedSlices, k, vi.iter, vi.n_affine) = {}
  /\ LET out == ResultFile(k, vi.iter, vi.n_affine)
     IN vi' = [vi EXCEPT
                 !.pc = "killed",
                 !.disk = [@ EXCEPT ![out.intent] = [@ EXCEPT ![<<out.slide, out.iter>>] =
                              EngineOutput(vi.disk, vi.m_SortedSlices, k,
                                           vi.iter, vi.n_affine)]]]
  /\ UNCHANGED <<stage, cacheVars, rc, vm, pj>>

\* voliter is run again with -N and the same arguments on what the killed
\* run left
Resume ==
  /\ stage = "iter"
  /\ vi.pc = "killed"
  /\ vi' = [vi EXCEPT !.pc = "slides", !.run = @ + 1, !.reuse = TRUE,
                      !.iter = LoopStart(vi.i_first), !.ordering = <<>>]
  /\ UNCHANGED <<stage, cacheVars, rc, vm, pj>>

IterRunNext ==
  \/ VoliterStart
  \/ \E k \in Slides : SkipSlide(k)
  \/ \E k \in Slides : ProcessSlide(k)
  \/ \E k \in Slides : ProcessSlideThrows(k)

IterNext ==
  \/ IterRunNext
  \/ Interrupt
  \/ Resume

IterTornNext ==
  \/ IterNext
  \/ \E k \in Slides : InterruptInSlide(k)

InitIter == stage = "iter" /\ CacheIdle /\ rc = RcIdle /\ vm = VmIdle /\ ViInit /\ pj = PjIdle

\* One voliter run
SpecIter == InitIter /\ [][IterRunNext]_vars

\* A voliter run that may be killed and resumed
SpecIterResume == InitIter /\ [][IterNext]_vars

\* A voliter run that may be killed at any point, within the registration of
\* a slide too, and resumed
SpecIterTorn == InitIter /\ [][IterTornNext]_vars

CacheNext == (\E f \in FileNames : GetImage(f)) \/ PurgeCache

InitCache == stage = "cache" /\ CacheInit /\ rc = RcIdle /\ vm = VmIdle /\ vi = ViIdle /\ pj = PjIdle

SpecCache == InitCache /\ [][CacheNext]_vars

\* ------------------------------------------------------------------ the program

Init == InitCache \/ InitPj \/ InitRecon \/ InitStack \/ InitMatch \/ InitIter

Next == CacheNext \/ PjNext \/ ReconNext \/ StackNext \/ MatchNext \/ IterTornNext

Spec == Init /\ [][Next]_vars

\* ------------------------------------------------------------------ claims

\* C1: with max_images = 2 and no byte cap, after GetImage(A), GetImage(B),
\* GetImage(A), GetImage(C) the resident set is exactly {A, C}: the hit on A
\* refreshed its recency, so B is the entry evicted when C is inserted.
C1_LruScenario ==
  (m_MaxImages = 2 /\ m_MaxMemory = 0 /\ calls = <<1, 2, 1, 3>>)
    => DOMAIN m_Cache = {1, 3}

\* The neighbour graph has been built (line 491 is passed)
GraphBuilt == stage = "recon" /\ rc.pc \notin {"idle", "nbr"}

\* The CSR arrays hold the directed edge s -> t
HasEdge(s, t) ==
  \E q \in rc.loc.G_adjidx[s]..(rc.loc.G_adjidx[s + 1] - 1) : rc.loc.G_adj[q + 1] = t

\* Slides s and t are next to each other in the sorted index
Adjacent(s, t) == Abs(PosOf(RcOrder, s) - PosOf(RcOrder, t)) = 1

ZGap(s, t) == Abs(rc.z_pos[s] - rc.z_pos[t])

\* C9: after the neighbour-graph build, for every z_range >= 0 every slide has
\* its immediate successor and its immediate predecessor of the sorted index
\* in its neighbour set, and the graph holds the two directed edges.
C9_ImmediateNeighbors ==
  GraphBuilt =>
    \A p \in 1..(NSlides - 1) :
      LET s == RcOrder[p]
          t == RcOrder[p + 1]
      IN /\ t \in rc.loc.slice_nbr[s] /\ HasEdge(s, t)
         /\ s \in rc.loc.slice_nbr[t] /\ HasEdge(t, s)

\* C9 witness: z_range = 0 and two consecutive slides further apart than that,
\* linked in both directions
C9_Witness ==
  /\ GraphBuilt
  /\ rc.z_range = 0
  /\ \E p \in 1..(NSlides - 1) :
       /\ ZGap(RcOrder[p], RcOrder[p + 1]) > rc.z_range
       /\ HasEdge(RcOrder[p], RcOrder[p + 1])
       /\ HasEdge(RcOrder[p + 1], RcOrder[p])

WeightOf(a, b) ==
  LET q == CHOOSE x \in rc.loc.G_adjidx[a]..(rc.loc.G_adjidx[a + 1] - 1) :
                rc.loc.G_adj[x + 1] = b
  IN rc.loc.G_edge_weight[q + 1]

\* The directed paths s -> ... -> t that visit no slide twice
SimplePaths(s, t) ==
  {p \in UNION {[1..n -> Slides] : n \in 1..NSlides} :
     /\ p[1] = s /\ p[Len(p)] = t
     /\ \A x \in 1..Len(p) : \A y \in 1..Len(p) : x # y => p[x] # p[y]
     /\ \A x \in 1..(Len(p) - 1) : HasEdge(p[x], p[x + 1])}

RECURSIVE PathWeight(_, _)
PathWeight(p, x) ==
  IF x >= Len(p) THEN 0 ELSE AddDouble(WeightOf(p[x], p[x + 1]), PathWeight(p, x + 1))

\* The shortest-path distance from s to t, INFINITE_WEIGHT when there is no path
ShortestDist(s, t) ==
  LET w == {PathWeight(p, 1) : p \in SimplePaths(s, t)}
  IN IF w = {} THEN INFINITE_WEIGHT ELSE MinOf(w)

RECURSIVE TotalUpTo(_, _)
TotalUpTo(r, j) ==
  IF j = 0 THEN 0 ELSE AddDouble(TotalUpTo(r, j - 1), ShortestDist(r, j - 1))

\* For every slide r, the sum over all slides j of the shortest-path distance
\* from r to j
TotalDist == Eager([r \in Slides |-> TotalUpTo(r, NSlides)])

\* Line 597 has just been passed: the root is chosen
RootChosen == stage = "recon" /\ rc.pc = "accum"

\* C2: the chosen root minimises the sum of the shortest-path distances to all
\* slides, and among the slides with the minimal sum it is the lowest index.
C2_RootMinimisesTotal ==
  RootChosen =>
    LET total == TotalDist
    IN \A r \in Slides :
         /\ total[r] >= total[rc.loc.i_root]
         /\ total[r] = total[rc.loc.i_root] => rc.loc.i_root <= r

\* C2 witness: the root is not slide 0, another slide ties with it and a
\* third one is strictly worse
C2_Witness ==
  /\ RootChosen
  /\ rc.loc.i_root # 0
  /\ LET total == TotalDist
     IN /\ \E r \in Slides : r > rc.loc.i_root /\ total[r] = total[rc.loc.i_root]
        /\ \E r \in Slides : total[r] > total[rc.loc.i_root]

\* C7: recon run twice in reuse mode leaves every project file with the same
\* content after the second run as after the first.
C7_ReuseIdempotent ==
  (stage = "recon" /\ rc.run = 2 /\ rc.pc = "done" /\ rc.reuse /\ rc.first_reuse)
    => rc.disk = rc.after_first


\* ---- the accumulated transforms and the graph

ReconDone == stage = "recon" /\ rc.pc = "done"

\* The tree edges from slide x up to the root, in the order the walk visits
\* them; an edge out of NO_PATH stands for a walk that does not get there
RECURSIVE WalkToRoot(_, _)
WalkToRoot(x, fuel) ==
  IF x = rc.loc.i_root THEN <<>>
  ELSE IF fuel = 0 \/ rc.loc.pred[x] = NO_PATH \/ rc.loc.pred[x] = x THEN <<<<NO_PATH, x>>>>
  ELSE <<<<rc.loc.pred[x], x>>>> \o WalkToRoot(rc.loc.pred[x], fuel - 1)

\* C11: ACCUM_MATRIX(v) is the identity for the root and, for any other slide,
\* the product of the transforms of the tree edges (pred(x) -> x) met on the
\* walk from v up to the root, each multiplied on the right in the order
\* visited; every transform read is the AFFINE_MATRIX file of a directed edge
\* of the graph (reference pred(x), moving x) that the pairwise stage wrote.
C11_AccumIsChainToRoot ==
  ReconDone =>
    \A v \in Slides :
      /\ rc.disk.accum_mat[v] = WalkToRoot(v, NSlides)
      /\ \A e \in SeqRange(WalkToRoot(v, NSlides)) :
           /\ e[1] # NO_PATH
           /\ HasEdge(e[1], e[2])
           /\ FnPair("AFFINE_MATRIX", e[1], e[2]) \in rc.disk.files

\* C12: a reconstruction does not complete with a slide that has no path from
\* the root: when the paths from the chosen root leave a slide with
\* predecessor NO_PATH the run ends in a fatal error, no transform persisted
\* for the slide.
C12_DisconnectedIsFatal ==
  ReconDone => \A v \in Slides : rc.loc.pred[v] # NO_PATH

\* A slide is reachable from the root when a directed path of finite total
\* weight leads to it
Reachable(v) == ShortestDist(rc.loc.i_root, v) < INFINITE_WEIGHT

\* C13: the solver run from the root sets distance[v] to the least total
\* weight of a directed path root -> v, predecessor[root] = root, for every
\* other reachable v a predecessor p with an edge p -> v and distance[v] =
\* distance[p] + w(p, v), and for every unreachable v distance = +inf and
\* predecessor = NO_PATH.
C13_SolverIsDijkstra ==
  RootChosen =>
    /\ rc.loc.pred[rc.loc.i_root] = rc.loc.i_root
    /\ \A v \in Slides :
         /\ rc.loc.dist[v] = ShortestDist(rc.loc.i_root, v)
         /\ (v # rc.loc.i_root /\ Reachable(v)) =>
              /\ rc.loc.pred[v] \in Slides \ {v}
              /\ HasEdge(rc.loc.pred[v], v)
              /\ rc.loc.dist[v] = AddDouble(rc.loc.dist[rc.loc.pred[v]],
                                            WeightOf(rc.loc.pred[v], v))
         /\ ~ Reachable(v) =>
              rc.loc.dist[v] = INFINITE_WEIGHT /\ rc.loc.pred[v] = NO_PATH

\* The root reaches one slide over an edge and does not reach another, the
\* edges not all of the same weight
C13_Witness ==
  /\ RootChosen
  /\ \E v \in Slides \ {rc.loc.i_root} :
       rc.loc.pred[v] = rc.loc.i_root /\ rc.loc.dist[v] < INFINITE_WEIGHT
  /\ \E v \in Slides : rc.loc.pred[v] = NO_PATH /\ rc.loc.dist[v] = INFINITE_WEIGHT
  /\ \E q \in 1..rc.loc.n_edges : rc.loc.G_edge_weight[q] # rc.loc.G_edge_weight[1]

\* The pairwise stage is over: the cursor is past the last slide
PairwiseDone == stage = "recon" /\ rc.pc = "root"

\* The slot of the weight of the directed edge i -> j
SlotOf(i, j) ==
  rc.loc.G_adjidx[i] + PosOf(SortedRefs(rc.z_pos, rc.loc.slice_nbr[i]), j)

\* C14: when the pairwise stage is over, the AFFINE_MATRIX and the
\* METRIC_VALUE file of every directed edge (i, j) of the graph exist, with
\* reuse and without, and every weight slot holds the weight computed from
\* the metric of its pair, none being left as it was initialised.
C14_PairFilesAndSlots ==
  PairwiseDone =>
    /\ Len(rc.loc.G_edge_weight) = rc.loc.n_edges
    /\ \A i \in Slides : \A j \in rc.loc.slice_nbr[i] :
         /\ FnPair("AFFINE_MATRIX", i, j) \in rc.disk.files
         /\ FnPair("METRIC_VALUE", i, j) \in rc.disk.files
         /\ \E m \in EngineMetrics \cup {ParseMetric(rc.disk.metric_txt[<<i, j>>])} :
              /\ FormatMetric(m) = rc.disk.metric_txt[<<i, j>>]
              /\ rc.loc.G_edge_weight[SlotOf(i, j)]
                   = EdgeWeight(m, rc.z_epsilon, rc.z_pos[j] - rc.z_pos[i])

\* The pairwise stage of a second run with reuse on is over, every slide
\* linked to every other
C14_Witness ==
  /\ PairwiseDone
  /\ rc.run = 2 /\ rc.reuse /\ ~ rc.first_reuse
  /\ rc.loc.n_edges = NSlides * (NSlides - 1)

\* C15: every edge weight handed to the solver is finite and not negative.
C15_WeightsFiniteNonNegative ==
  (stage = "recon" /\ rc.pc \in {"root", "accum", "done"}) =>
    \A q \in 1..rc.loc.n_edges :
      rc.loc.G_edge_weight[q] >= 0 /\ rc.loc.G_edge_weight[q] < INFINITE_WEIGHT

\* The metrics the pairwise stage may compute a weight from
StageMetrics == EngineMetrics \cup {FormatMetric(m) : m \in EngineMetrics}

\* C16: for a fixed metric and z_epsilon >= 0 the weight of an edge does not
\* decrease when |dz| grows.
C16_WeightMonotone ==
  GraphBuilt =>
    \A m \in StageMetrics : \A d \in 0..(FarZ - 1) :
      EdgeWeight(m, rc.z_epsilon, d) <= EdgeWeight(m, rc.z_epsilon, d + 1)

\* Two edges with the same metric and different |dz| have been weighted, the
\* longer one more than the shorter
C16_Witness ==
  /\ PairwiseDone
  /\ rc.z_epsilon > 0
  /\ \E i \in Slides : \E j \in rc.loc.slice_nbr[i] : \E k \in rc.loc.slice_nbr[i] :
       /\ ZGap(i, j) < ZGap(i, k)
       /\ rc.disk.metric_txt[<<i, j>>] = rc.disk.metric_txt[<<i, k>>]
       /\ rc.loc.G_edge_weight[SlotOf(i, j)] < rc.loc.G_edge_weight[SlotOf(i, k)]
       /\ rc.loc.G_edge_weight[SlotOf(i, k)] < INFINITE_WEIGHT


\* ---- the volume match

\* The median affine is on disk
MedianWritten == stage = "match" /\ vm.pc \in {"initial", "done"}

\* The summed entry-wise L1 distance of a matrix to the Mv0 of every slide
RECURSIVE SumL1(_, _, _)
SumL1(mat, Mv0, n) ==
  IF n = 0 THEN 0 ELSE SumL1(mat, Mv0, n - 1) + ArrayOneNorm(mat, Mv0[n - 1])

\* The slides whose Mv0 has the minimal summed distance
Medoids(Mv0) ==
  {j \in Slides : \A i \in Slides : SumL1(Mv0[j], Mv0, NSlides) <= SumL1(Mv0[i], Mv0, NSlides)}

\* C17: the median affine written by InitialMatchToVolume is the Mv0 of a
\* slide, its summed L1 distance to all Mv0 is minimal, among the slides tied
\* for the minimum the lowest index is chosen; Mv0 = I, I, M with distance 10
\* between I and M gives the row sums 10, 10, 20 and the index 0.
C17_MedianIsLowestMedoid ==
  MedianWritten =>
    LET Mv0 == vm.disk.VOL_INIT_MATRIX
        Mbar == vm.disk.VOL_MEDIAN_INIT_MATRIX
    IN /\ \E i \in Slides : Mbar = Mv0[i]
       /\ \A j \in Slides : SumL1(Mbar, Mv0, NSlides) <= SumL1(Mv0[j], Mv0, NSlides)
       /\ vm.idx_best = MinOf(Medoids(Mv0))
       /\ Mbar = Mv0[vm.idx_best]
       /\ FnGlobal("VOL_MEDIAN_INIT_MATRIX") \in vm.disk.files
       /\ (\A k \in Slides : Mv0[k] = IF k = NSlides - 1 THEN <<1, 10, 0, 1>> ELSE MatI) =>
            /\ ArrayOneNorm(MatI, <<1, 10, 0, 1>>) = 10
            /\ \A k \in Slides : SumL1(Mv0[k], Mv0, NSlides) =
                                   IF k = NSlides - 1 THEN 10 * (NSlides - 1) ELSE 10
            /\ vm.idx_best = 0

\* The example of C17: several slides tie for the minimal row sum
C17_Witness ==
  /\ MedianWritten
  /\ \A k \in Slides :
       vm.disk.VOL_INIT_MATRIX[k] = IF k = NSlides - 1 THEN <<1, 10, 0, 1>> ELSE MatI
  /\ Cardinality(Medoids(vm.disk.VOL_INIT_MATRIX)) = NSlides - 1
  /\ vm.idx_best = 0

\* C18: after InitialMatchToVolume completes, VOL_ITER_MATRIX(s, 0) of every
\* slide s holds Ma(s) * Mbar, with Ma(s) the ACCUM_MATRIX of s and Mbar the
\* median affine the same run has written.
C18_InitialIsAccumTimesMedian ==
  (stage = "match" /\ vm.pc = "done") =>
    \A s \in Slides :
      LET Ma == vm.disk.ACCUM_MATRIX[s]
          Mbar == vm.disk.VOL_MEDIAN_INIT_MATRIX
      IN vm.disk.VOL_ITER_MATRIX[s] =
           <<Ma[1] * Mbar[1] + Ma[2] * Mbar[3], Ma[1] * Mbar[2] + Ma[2] * Mbar[4],
             Ma[3] * Mbar[1] + Ma[4] * Mbar[3], Ma[3] * Mbar[2] + Ma[4] * Mbar[4]>>

\* A completed run in which the order of the factors matters for some slide
C18_Witness ==
  /\ stage = "match"
  /\ vm.pc = "done"
  /\ \E s \in Slides :
       /\ vm.disk.ACCUM_MATRIX[s] # MatI
       /\ vm.disk.VOL_MEDIAN_INIT_MATRIX # MatI
       /\ MatMul(vm.disk.ACCUM_MATRIX[s], vm.disk.VOL_MEDIAN_INIT_MATRIX)
            # MatMul(vm.disk.VOL_MEDIAN_INIT_MATRIX, vm.disk.ACCUM_MATRIX[s])
       /\ vm.disk.VOL_ITER_MATRIX[s] # NoMat

\* ---- the refiner

IterIntents == {"VOL_ITER_MATRIX", "VOL_ITER_WARP", "ITER_METRIC_DUMP"}

Refining == stage = "iter" /\ vi.pc \in {"slides", "done", "aborted", "killed"}

\* The iterations of the range the run has gone all the way through
Completed(v) ==
  IF v.pc = "done" THEN v.i_first..v.i_last ELSE v.i_first..(v.iter - 1)

\* C3: iteration k comes wholly before iteration k+1.  While the run is in
\* iteration k+1 of its range, the output of iteration k of every slide is
\* on disk, and a transform file the engine was told to read and did not find
\* is never one of an iteration from i_first on.
C3_IterationBarrier ==
  Refining =>
    /\ \A k \in Slides : \A it \in Completed(vi) :
         FilePresent(vi.disk, IterFile(IF it <= vi.n_affine THEN "VOL_ITER_MATRIX"
                                       ELSE "VOL_ITER_WARP", k, it))
    /\ \A x \in 1..Len(vi.failed) : \A f \in vi.failed[x].missing : f.iter < vi.i_first

\* An iteration after the first of the range is under way, in reuse mode and
\* in none, and a slide of it has been registered from the files of the
\* iteration before
C3_Witness ==
  /\ stage = "iter" /\ vi.pc = "slides"
  /\ vi.iter > vi.i_first
  /\ vi.n_affine = 0
  /\ Len(vi.ordering) >= 1
  /\ vi.disk.VOL_ITER_WARP[<<vi.ordering[1], vi.iter>>]
       # vi.disk0.VOL_ITER_WARP[<<vi.ordering[1], vi.iter>>]

\* C4: when the refiner returns normally, every slide has, for every iteration
\* of the range, its matrix (iteration <= n_affine) or its warp (iteration >
\* n_affine) on disk, with reuse and without.
C4_OutputsExist ==
  (stage = "iter" /\ vi.pc = "done") =>
    \A k \in Slides : \A it \in vi.i_first..vi.i_last :
      /\ it <= vi.n_affine => vi.disk.VOL_ITER_MATRIX[<<k, it>>] # NoFile
      /\ it > vi.n_affine => vi.disk.VOL_ITER_WARP[<<k, it>>] # NoFile

\* A reuse-mode run over an affine and a deformable iteration has returned,
\* having skipped a slide whose file was there and registered another
C4_Witness ==
  /\ stage = "iter" /\ vi.pc = "done" /\ vi.reuse
  /\ vi.i_first = 1 /\ vi.i_last = 2 /\ vi.n_affine = 1
  /\ \E k \in Slides : vi.disk0.VOL_ITER_MATRIX[<<k, 1>>] # NoFile
  /\ \E k \in Slides : vi.disk0.VOL_ITER_MATRIX[<<k, 1>>] = NoFile

\* The refiner run from the project as it was found, the slides of every
\* iteration taken in index order
RECURSIVE InOrderSlides(_, _, _, _)
InOrderSlides(v, c, iter, k) ==
  IF ~ c.ok \/ k = NSlides THEN c
  ELSE IF CanSkipIterFile(v.first_reuse, c.disk, ResultFile(k, iter, v.n_affine))
  THEN InOrderSlides(v, c, iter, k + 1)
  ELSE IF MissingReads(c.disk, v.m_SortedSlices, k, iter, v.n_affine) # {}
  THEN [c EXCEPT !.ok = FALSE]
  ELSE InOrderSlides(v, [c EXCEPT !.disk = RegisterSlide(c.disk, v.m_SortedSlices, k,
                                                         iter, v.n_affine)], iter, k + 1)

RECURSIVE InOrderRun(_, _, _, _)
InOrderRun(v, c, iter, last) ==
  IF ~ c.ok \/ iter > last THEN c
  ELSE InOrderRun(v, InOrderSlides(v, c, iter, 0), iter + 1, last)

SameFiles(d, e, k, it) == \A n \in IterIntents : d[n][<<k, it>>] = e[n][<<k, it>>]

\* C5: the files of an iteration do not depend on the order the slides are
\* taken in.  Whatever the shuffles were, the files of the iterations gone
\* through are the ones the run in index order writes, and so are the files
\* of the slides already visited in the iteration under way when the run in
\* index order gets through that iteration.
C5_OrderIndependent ==
  (stage = "iter" /\ vi.run = 1 /\ vi.pc \in {"slides", "done"}) =>
    LET through == IF vi.pc = "done" THEN vi.i_last ELSE vi.iter - 1
        c == InOrderRun(vi, [disk |-> vi.disk0, ok |-> TRUE], vi.i_first, through)
        d == InOrderSlides(vi, c, vi.iter, 0)
    IN /\ c.ok
       /\ \A k \in Slides : \A it \in vi.i_first..through : SameFiles(vi.disk, c.disk, k, it)
       /\ (vi.pc = "slides" /\ d.ok) =>
            \A k \in SeqRange(vi.ordering) : SameFiles(vi.disk, d.disk, k, vi.iter)

\* A second iteration is gone through against index order, last slide first,
\* each slide registered anew
C5_Witness ==
  /\ stage = "iter" /\ vi.pc = "slides" /\ ~ vi.reuse
  /\ vi.iter = 2 /\ vi.i_first = 1
  /\ vi.ordering = <<NSlides - 1, 0>>

C8_ResumeSameFiles ==
  (stage = "iter" /\ vi.run = 2 /\ vi.pc = "done") =>
    LET c == InOrderRun(vi, [disk |-> vi.disk0, ok |-> TRUE], vi.i_first, vi.i_last)
    IN c.ok /\ vi.disk = c.disk

\* No result file of the range was there when the first run began
NothingStale(v) ==
  \A k \in Slides : \A it \in v.i_first..v.i_last :
    ~ FilePresent(v.disk0, ResultFile(k, it, v.n_affine))

\* C8, amended: the same when the killed run had reuse on too, or found no
\* result file of its range on disk.
C8_ResumeSameFilesNoStale ==
  (stage = "iter" /\ vi.run = 2 /\ vi.pc = "done" /\ (vi.first_reuse \/ NothingStale(vi))) =>
    LET c == InOrderRun(vi, [disk |-> vi.disk0, ok |-> TRUE], vi.i_first, vi.i_last)
    IN c.ok /\ vi.disk = c.disk

\* A run without reuse on a project with no result of the range, killed in
\* its second iteration and resumed, has returned
C8_Witness ==
  /\ stage = "iter" /\ vi.run = 2 /\ vi.pc = "done"
  /\ ~ vi.first_reuse /\ NothingStale(vi)
  /\ vi.i_first = 1 /\ vi.i_last = 2

\* The files recon and volmatch have written
VolmatchIntents ==
  {"VOL_MEDIAN_INIT_MATRIX", "VOL_INIT_MATRIX", "VOL_SLIDE", "ACCUM_MATRIX", "ACCUM_RESLICE"}

\* C19: iterative refinement never alters the volume-match results: whatever
\* the parameters and the number of iterations, VOL_MEDIAN_INIT_MATRIX, every
\* VOL_INIT_MATRIX, every VOL_SLIDE, every ACCUM file and every iteration-0
\* transform are what they were when IterativeMatchToVolume was called.
C19_VolmatchFilesKept ==
  stage = "iter" =>
    /\ \A n \in VolmatchIntents : vi.disk[n] = vi.disk0[n]
    /\ \A k \in Slides, n \in IterIntents : vi.disk[n][<<k, 0>>] = vi.disk0[n][<<k, 0>>]

\* The refiner has gone through two iterations and written files of both
C19_Witness ==
  /\ stage = "iter"
  /\ vi.pc = "done"
  /\ vi.i_first = 1
  /\ vi.i_last >= 2
  /\ \A k \in Slides, it \in 1..2 :
       /\ ~ FilePresent(vi.disk0, ResultFile(k, it, vi.n_affine))
       /\ FilePresent(vi.disk, ResultFile(k, it, vi.n_affine))
  /\ \A k \in Slides : FilePresent(vi.disk, IterFile("VOL_ITER_MATRIX", k, 0))

\* C20: IterativeMatchToVolume rejects every range with i_first > i_last,
\* i_first = 0 or i_last > n_affine + n_deform, before any registration and
\* before any file is written; every range with
\* 1 <= i_first <= i_last <= n_affine + n_deform is accepted.
C20_RangeCheck ==
  (stage = "iter" /\ vi.run = 1 /\ vi.pc # "start") =>
    /\ (vi.i_first > vi.i_last \/ vi.i_first = 0 \/ vi.i_last > vi.n_affine + vi.n_deform) =>
         /\ vi.pc = "rejected"
         /\ vi.disk = vi.disk0
         /\ vi.ordering = <<>>
         /\ vi.failed = <<>>
    /\ (1 <= vi.i_first /\ vi.i_first <= vi.i_last /\ vi.i_last <= vi.n_affine + vi.n_deform) =>
         vi.pc # "rejected"

\* A range with its ends the wrong way round, each end within bounds, is
\* rejected and the files are as they were
C20_Witness ==
  /\ stage = "iter"
  /\ vi.pc = "rejected"
  /\ vi.i_first > vi.i_last
  /\ vi.i_first >= 1
  /\ vi.i_last <= vi.n_affine + vi.n_deform
  /\ vi.disk = vi.disk0

\* C21: a run over [i_first, i_last] writes result and metric files of the
\* iterations of that range only and leaves the files of every other
\* iteration as they were; a run restarted with i_first = n_affine + 1 reads
\* the affines of iteration n_affine as its starting transforms and writes
\* no file of an iteration up to n_affine.
C21_OnlyRangeWritten ==
  (stage = "iter" /\ vi.pc # "start") =>
    /\ \A k \in Slides, it \in 0..MaxIter, n \in IterIntents :
         it \notin vi.i_first..vi.i_last => vi.disk[n][<<k, it>>] = vi.disk0[n][<<k, it>>]
    /\ (vi.i_first = vi.n_affine + 1 /\ vi.pc # "rejected") =>
         /\ \A k \in Slides, it \in 0..vi.n_affine, n \in IterIntents :
              vi.disk[n][<<k, it>>] = vi.disk0[n][<<k, it>>]
         /\ \A k \in Slides :
              \A f \in SeqRange(SlideReads(vi.disk, vi.m_SortedSlices, k,
                                           vi.i_first, vi.n_affine)) :
                f.intent = "VOL_ITER_MATRIX" /\ f.iter = vi.n_affine

\* A run restarted at n_affine + 1 on a project that holds the affine
\* iterations has written its warps
C21_Witness ==
  /\ stage = "iter"
  /\ vi.pc = "done"
  /\ vi.n_affine >= 1
  /\ vi.i_first = vi.n_affine + 1
  /\ \A k \in Slides :
       /\ FilePresent(vi.disk0, IterFile("VOL_ITER_MATRIX", k, vi.n_affine))
       /\ ~ FilePresent(vi.disk0, IterFile("VOL_ITER_WARP", k, vi.i_first))
       /\ FilePresent(vi.disk, IterFile("VOL_ITER_WARP", k, vi.i_first))
       /\ FilePresent(vi.disk, IterFile("ITER_METRIC_DUMP", k, vi.i_first))

\* The transform of slide k at iteration it: a matrix up to n_affine, a warp
\* after it
TransformOf(disk, k, it, n_affine) == FileContent(disk, ResultFile(k, it, n_affine))

\* C22: a per-iteration per-slide transform is immutable once written.  No
\* step of a refiner run over a range that holds iteration it changes the
\* content of VOL_ITER_MATRIX(s, it) (it <= n_affine) or VOL_ITER_WARP(s, it)
\* (it > n_affine) once the file is there, be it from this run or from an
\* earlier one.
C22_ImmutableOnceWritten ==
  [][stage = "iter" =>
       \A k \in Slides, it \in 1..MaxIter :
         TransformOf(vi.disk, k, it, vi.n_affine) # NoFile =>
           TransformOf(vi'.disk, k, it, vi.n_affine)
             = TransformOf(vi.disk, k, it, vi.n_affine)]_vars

\* C22, amended: a transform file is never changed by a run in reuse mode,
\* and a file a run has written itself is not changed again by that run or
\* by its resumption; a run without reuse overwrites the transforms of its
\* range that an earlier run has left.
C22_ImmutableUnlessRerunWithoutReuse ==
  [][stage = "iter" =>
       \A k \in Slides, it \in 1..MaxIter :
         (/\ TransformOf(vi.disk, k, it, vi.n_affine) # NoFile
          /\ vi.reuse \/ TransformOf(vi.disk0, k, it, vi.n_affine) = NoFile) =>
           TransformOf(vi'.disk, k, it, vi.n_affine)
             = TransformOf(vi.disk, k, it, vi.n_affine)]_vars

\* A resumed run has come to its end over a range with a transform of an
\* earlier refinement, which is still what it was, and with a transform the
\* first run wrote
C22_Witness ==
  /\ stage = "iter"
  /\ vi.pc = "done"
  /\ vi.run = 2
  /\ vi.first_reuse
  /\ \E k \in Slides, it \in vi.i_first..vi.i_last :
       /\ TransformOf(vi.disk0, k, it, vi.n_affine) # NoFile
       /\ TransformOf(vi.disk, k, it, vi.n_affine) = TransformOf(vi.disk0, k, it, vi.n_affine)
  /\ \E k \in Slides, it \in vi.i_first..vi.i_last :
       /\ TransformOf(vi.disk0, k, it, vi.n_affine) = NoFile
       /\ TransformOf(vi.disk, k, it, vi.n_affine) # NoFile

\* ---- the image cache

\* The files asked for since the cache was last purged
RECURSIVE SincePurge(_, _)
SincePurge(cs, n) ==
  IF n = 0 \/ cs[n] = 0 THEN {} ELSE SincePurge(cs, n - 1) \cup {cs[n]}

\* C23: with max_images > 0 the cache holds at most max_images entries after
\* every GetImage and PurgeCache of any sequence of calls; with max_images = 0
\* the count cap is off: no call evicts an entry unless the byte cap is on and
\* would be exceeded, and with both caps off every image asked for stays.
C23_CountCap ==
  /\ [](stage = "cache" =>
          /\ m_MaxImages > 0 => Cardinality(DOMAIN m_Cache) <= m_MaxImages
          /\ (m_MaxImages = 0 /\ m_MaxMemory = 0) =>
               DOMAIN m_Cache = SincePurge(calls, Len(calls)))
  /\ [][(stage = "cache" /\ m_MaxImages = 0 /\ Len(calls') > Len(calls)
         /\ calls'[Len(calls')] # 0 /\ ~ (DOMAIN m_Cache \subseteq DOMAIN m_Cache')) =>
          /\ m_MaxMemory > 0
          /\ (m_UsedMemory + img_bytes[calls'[Len(calls')]]) % WordMod > m_MaxMemory]_vars

\* The count cap has been reached and an entry evicted for it
C23_Witness ==
  /\ stage = "cache"
  /\ m_MaxImages = 2
  /\ m_MaxMemory = 0
  /\ Len(calls) >= 3
  /\ Cardinality(SincePurge(calls, Len(calls))) = 3
  /\ Cardinality(DOMAIN m_Cache) = 2

\* C24: when max_bytes > 0 and the image being loaded is larger than
\* max_bytes, the eviction loop ends with every resident entry evicted and
\* GetImage still inserts the image: the cache then holds that image alone.
C24_OversizedImageAlone ==
  (/\ stage = "cache"
   /\ m_MaxMemory > 0
   /\ calls # <<>>
   /\ calls[Len(calls)] # 0
   /\ img_bytes[calls[Len(calls)]] > m_MaxMemory) =>
    DOMAIN m_Cache = {calls[Len(calls)]}

\* ---- stacks of two and of five slides

\* The root of a stack of n slides has been chosen
StackDone(n) == stage = "stack" /\ rc.n = n /\ rc.pc = "done"

\* In a stack of two slides each slide is the other's sole neighbour
TwoSlideGraph ==
  /\ rc.loc.slice_nbr[0] = {1}
  /\ rc.loc.slice_nbr[1] = {0}
  /\ rc.loc.G_adj = <<1, 0>>

\* C25: in a stack of two slides each slide is the other's sole neighbour and
\* the root is the slide with the lower index, whatever the weights of the
\* two directed edges are.
C25_TwoSlidesRootIsFirst ==
  StackDone(2) => TwoSlideGraph /\ rc.loc.i_root = 0

\* C25, amended: in a stack of two slides each slide is the other's sole
\* neighbour; the root is slide 1 when the edge 1 -> 0 weighs less than the
\* edge 0 -> 1, and slide 0 otherwise.
C25_TwoSlidesRootIsLighter ==
  StackDone(2) =>
    /\ TwoSlideGraph
    /\ rc.loc.i_root = IF rc.loc.G_edge_weight[2] < rc.loc.G_edge_weight[1] THEN 1 ELSE 0

\* The two registrations of a two-slide stack disagree and the second slide
\* is the root
C25_Witness ==
  /\ StackDone(2)
  /\ rc.loc.G_edge_weight[2] < rc.loc.G_edge_weight[1]
  /\ rc.loc.G_edge_weight[1] < INFINITE_WEIGHT
  /\ rc.loc.i_root = 1

\* Five slides at z = 0..4, z_range = 1, z_epsilon = 0, all pairwise metrics
\* equal: the graph is the path 0 - 1 - 2 - 3 - 4 and all its edges weigh the
\* same
FiveEqual ==
  /\ StackDone(5)
  /\ rc.z_range = 1
  /\ rc.z_epsilon = 0
  /\ \A q \in 1..rc.loc.n_edges : rc.loc.pair_metric[q] = rc.loc.pair_metric[1]

\* C26: for five slides at z = 0, 1, 2, 3, 4 with z_range = 1 and
\* z_epsilon = 0, when all pairwise metrics are equal (the common edge weight
\* being any value >= 0) the root is slide 0.
C26_FiveSlidesRootIsFirst ==
  FiveEqual => rc.loc.i_root = 0

\* C26, amended: the graph is the path 0 - 1 - 2 - 3 - 4 with one common edge
\* weight w; the totals of the five slides are 10w, 7w, 6w, 7w, 10w, so the
\* root is the middle slide 2 when w > 0, and slide 0 when w = 0.
C26_FiveSlidesRootIsMiddle ==
  FiveEqual =>
    LET w == rc.loc.G_edge_weight[1]
        l == rc.loc
    IN /\ \A k \in 0..4 : l.slice_nbr[k] = {j \in 0..4 : Abs(j - k) = 1}
       /\ \A q \in 1..l.n_edges : l.G_edge_weight[q] = w
       /\ \A k \in 0..4 :
            RootDist(l.G_adjidx, l.G_adj, l.G_edge_weight, k) = <<10, 7, 6, 7, 10>>[k + 1] * w
       /\ l.i_root = IF w > 0 THEN 2 ELSE 0

\* Five slides with one common positive edge weight
C26_Witness ==
  /\ FiveEqual
  /\ rc.loc.G_edge_weight[1] > 0
  /\ rc.loc.i_root = 2

\* ---- the manifest and the paths

HasFields(line) == Len(line) > 0

\* The manifest has been gone through, to its end or to an exception
ManifestRead == stage = "init" /\ pj.pc \in {"loaded", "failed"}

\* C27: ReadManifest skips the lines with blank content.  A manifest whose
\* lines are empty (or white space only) or hold three fields naming an
\* existing file loads, and yields one slide per non-blank line, in file
\* order.
C27_BlankLinesSkipped ==
  LET filled == SelectSeq(pj.manifest, HasFields)
  IN (/\ ManifestRead
      /\ \A x \in 1..Len(filled) :
           Len(filled[x]) = 3 /\ RawFileExists(filled[x][3])) =>
       /\ pj.pc = "loaded"
       /\ pj.m_Slices = [x \in 1..Len(filled) |-> SliceOf(filled[x])]

\* The files the stages write for a project of n slides: per ordered pair of
\* slides, per slide, per slide and iteration, and for the project
ProjectOutputs(n) ==
  LET idx == 0..(n - 1)
  IN {[intent |-> t, a |-> i, b |-> j, iter |-> 0] :
         t \in {"AFFINE_MATRIX", "METRIC_VALUE"},
         i \in idx, j \in idx}
     \cup {[intent |-> t, a |-> i, b |-> i, iter |-> 0] :
             t \in {"ACCUM_MATRIX", "ACCUM_RESLICE", "VOL_INIT_MATRIX", "VOL_SLIDE"}, i \in idx}
     \cup {[intent |-> t, a |-> i, b |-> i, iter |-> k] :
             t \in {"VOL_ITER_MATRIX", "VOL_ITER_WARP", "ITER_METRIC_DUMP"},
             i \in idx, k \in 0..MaxIter}
     \cup {[intent |-> t, a |-> 0, b |-> 0, iter |-> 0] :
             t \in {"VOL_MEDIAN_INIT_MATRIX", "MANIFEST_FILE"}}

\* Outputs of a pair are those of two different slides
IsOutput(o) == o.intent \in {"AFFINE_MATRIX", "METRIC_VALUE"} => o.a # o.b

PathOf(slices, o) ==
  IF o.intent \in {"AFFINE_MATRIX", "METRIC_VALUE"}
  THEN GetFilenameForSlicePair(slices[o.a + 1], slices[o.b + 1], o.intent)
  ELSE IF o.intent \in {"VOL_MEDIAN_INIT_MATRIX", "MANIFEST_FILE"}
  THEN GetFilenameForGlobal(o.intent)
  ELSE GetFilenameForSlice(slices[o.a + 1], o.intent, o.iter)

\* C28: no project file has two producers.  For every manifest the system
\* accepts, two different outputs (another intent, another slide or ordered
\* pair of slides, another iteration) never have the same path.
C28_NoPathAliasing ==
  (stage = "init" /\ pj.pc = "loaded") =>
    \A o1 \in ProjectOutputs(Len(pj.m_Slices)) :
      \A o2 \in ProjectOutputs(Len(pj.m_Slices)) :
        (IsOutput(o1) /\ IsOutput(o2) /\ o1 # o2) =>
          PathOf(pj.m_Slices, o1) # PathOf(pj.m_Slices, o2)

\* ---- the transforms of an iteration

\* What the claim has neighbour j resliced with at iteration k
C29Reslice(j, k, n_affine) ==
  IF k - 1 <= n_affine
  THEN <<[intent |-> "VOL_ITER_MATRIX", slide |-> j, iter |-> k - 1]>>
  ELSE <<[intent |-> "VOL_ITER_WARP", slide |-> j, iter |-> k - 1],
         [intent |-> "VOL_ITER_MATRIX", slide |-> j, iter |-> n_affine]>>

\* What the claim has slide s start from (affine) or be pre-transformed by
\* (deformable) at iteration k
C29Own(s, k, n_affine) ==
  IF k <= n_affine
  THEN [intent |-> "VOL_ITER_MATRIX", slide |-> s, iter |-> k - 1]
  ELSE [intent |-> "VOL_ITER_MATRIX", slide |-> s, iter |-> n_affine]

\* What the claim has slide s write at iteration k
C29Result(s, k, n_affine) ==
  IF k <= n_affine
  THEN [intent |-> "VOL_ITER_MATRIX", slide |-> s, iter |-> k]
  ELSE [intent |-> "VOL_ITER_WARP", slide |-> s, iter |-> k]

RECURSIVE C29Reads(_, _, _, _, _)
C29Reads(nbrs, x, s, k, n_affine) ==
  IF x > Len(nbrs) THEN <<C29Own(s, k, n_affine)>>
  ELSE C29Reslice(nbrs[x], k, n_affine) \o C29Reads(nbrs, x + 1, s, k, n_affine)

\* C29: at iteration k every z-neighbour j is resliced with
\* VOL_ITER_MATRIX(j, k-1) alone when k-1 <= n_affine, and with
\* VOL_ITER_WARP(j, k-1) and the frozen VOL_ITER_MATRIX(j, n_affine)
\* otherwise; slide s starts from VOL_ITER_MATRIX(s, k-1) and writes
\* VOL_ITER_MATRIX(s, k) when k <= n_affine, and is otherwise pre-transformed
\* by VOL_ITER_MATRIX(s, n_affine), which stays as it is, and writes
\* VOL_ITER_WARP(s, k); with n_affine = 0 the iteration-0 matrix is the
\* frozen affine.  Every step that changes a file is the registration of one
\* slide with these inputs and this output.
C29_TransformsOfIteration ==
  [][(stage = "iter" /\ vi'.disk # vi.disk) =>
       \E s \in Todo(vi) :
         LET k == vi.iter
             reads == C29Reads(KNbr(vi.m_SortedSlices, s), 1, s, k, vi.n_affine)
             out == C29Result(s, k, vi.n_affine)
         IN /\ \A x \in 1..Len(reads) : FileContent(vi.disk, reads[x]) # NoFile
            /\ FileContent(vi'.disk, out)
                 = MixAll(vi.disk, reads, 1, Mix(s, IF k <= vi.n_affine THEN 0 ELSE 1))
            /\ \A n \in {"VOL_ITER_MATRIX", "VOL_ITER_WARP"}, e \in IterKeys :
                 (n # out.intent \/ e # <<s, k>>) => vi'.disk[n][e] = vi.disk[n][e]]_vars

\* Without affine iterations the second deformable iteration has been gone
\* through: its warps are there and the iteration-0 matrices are untouched
C29_Witness ==
  /\ stage = "iter"
  /\ vi.pc = "done"
  /\ vi.n_affine = 0
  /\ vi.i_first = 1
  /\ vi.i_last = 2
  /\ \A s \in Slides :
       /\ ~ FilePresent(vi.disk0, IterFile("VOL_ITER_WARP", s, 2))
       /\ FilePresent(vi.disk, IterFile("VOL_ITER_WARP", s, 2))
       /\ FilePresent(vi.disk, IterFile("VOL_ITER_WARP", s, 1))
       /\ FileContent(vi.disk, IterFile("VOL_ITER_MATRIX", s, 0))
            = FileContent(vi.disk0, IterFile("VOL_ITER_MATRIX", s, 0))

\* ---- the pairwise registrar and reuse mode

\* Both result files of the edge the cursor is at exist and reuse mode is on
PairStored ==
  /\ rc.reuse
  /\ FnPair("AFFINE_MATRIX", RcRef, RcMov) \in rc.disk.files
  /\ FnPair("METRIC_VALUE", RcRef, RcMov) \in rc.disk.files

C31_NeighborsSymmetric ==
  GraphBuilt =>
    \A s \in Slides : \A t \in Slides \ {s} :
      /\ t \in rc.loc.slice_nbr[s] <=> s \in rc.loc.slice_nbr[t]
      /\ HasEdge(s, t) <=> HasEdge(t, s)

\* Two slides share a z value, and two slides that are not next to each other
\* in the sorted index are neighbours of each other
C31_Witness ==
  /\ GraphBuilt
  /\ \E s \in Slides : \E t \in Slides \ {s} : rc.z_pos[s] = rc.z_pos[t]
  /\ \E s \in Slides : \E t \in Slides \ {s} :
       /\ ~ Adjacent(s, t)
       /\ t \in rc.loc.slice_nbr[s] /\ s \in rc.loc.slice_nbr[t]

\* The final run of the solver is over (line 597 is passed)
PathsComputed == stage = "recon" /\ rc.pc \in {"accum", "done"}

\* Every weight the pairwise stage stored is finite
AllWeightsFinite == \A q \in 1..rc.loc.n_edges : rc.loc.G_edge_weight[q] < INFINITE_WEIGHT

\* C32: for every manifest and every z_range the neighbour graph is strongly
\* connected, and whenever every edge weight is finite no slide is left with
\* predecessor NO_PATH by the final run of the solver from the chosen root.
C32_ConnectedWhenFinite ==
  PathsComputed =>
    /\ \A s \in Slides : \A t \in Slides : SimplePaths(s, t) # {}
    /\ AllWeightsFinite => \A v \in Slides : rc.loc.pred[v] # NO_PATH

\* ---- the bytes the cache accounts for

\* The sum of the recorded sizes of the entries of fs
RECURSIVE ResidentBytes(_, _)
ResidentBytes(cache, fs) ==
  IF fs = {} THEN 0
  ELSE LET f == CHOOSE g \in fs : TRUE
       IN cache[f].size + ResidentBytes(cache, fs \ {f})

\* C33: after any sequence of GetImage and PurgeCache calls on a newly
\* constructed cache, m_UsedMemory is the sum of the recorded sizes of the
\* resident entries; it is 0 for a new cache and after PurgeCache, which
\* leaves no entry resident.
C33_UsedBytesIsResidentSum ==
  stage = "cache" =>
    /\ m_UsedMemory = ResidentBytes(m_Cache, DOMAIN m_Cache)
    /\ (calls = <<>> \/ calls[Len(calls)] = 0) => (m_UsedMemory = 0 /\ DOMAIN m_Cache = {})

\* ---- the accumulated matrix and its reslice

\* C34: after ReconstructStack completes, with reuse and without, whatever
\* files existed before the run, the ACCUM_RESLICE image of every slide is
\* the reslice of its raw image under the ACCUM_MATRIX that is on disk for it
\* at the end of the run.
C34_ResliceMatchesMatrix ==
  ReconDone =>
    \A v \in Slides :
      /\ FnSlice("ACCUM_MATRIX", v) \in rc.disk.files
      /\ FnSlice("ACCUM_RESLICE", v) \in rc.disk.files
      /\ rc.disk.reslice_of[v] = rc.disk.accum_mat[v]

\* ---- the metric dumps of the refiner

\* C35: when a refiner run returns normally, every (slide, iteration) of the
\* processed range whose result file exists has its ITER_METRIC_DUMP file
\* too, the slides skipped in reuse mode included.
C35_DumpWithEveryResult ==
  (stage = "iter" /\ vi.pc = "done") =>
    \A k \in Slides : \A iter \in vi.i_first..vi.i_last :
      FilePresent(vi.disk, ResultFile(k, iter, vi.n_affine))
        => FilePresent(vi.disk, IterFile("ITER_METRIC_DUMP", k, iter))

\* ---- the walk of the chain composer

\* The slides the loop of lines 635-650 goes through from slide v, following
\* the predecessors until one is its own predecessor or has none; the walk is
\* cut where it comes back to a slide of seen, that slide being its last entry
RECURSIVE PredWalk(_, _, _)
PredWalk(pred, v, seen) ==
  IF pred[v] = NO_PATH \/ pred[v] = v THEN <<v>>
  ELSE IF pred[v] \in seen THEN <<v, pred[v]>>
  ELSE <<v>> \o PredWalk(pred, pred[v], seen \cup {pred[v]})

\* C36: for every slide v the predecessor walk of the chain composer ends:
\* from v it comes to the chosen root, which is its own predecessor, or to a
\* slide without predecessor, after at most |V| - 1 steps and without coming
\* to a slide twice, zero and equal edge weights included.
C36_PredWalkEnds ==
  (stage = "stack" /\ rc.pc = "done") =>
    \A v \in 0..(rc.n - 1) :
      LET w == PredWalk(rc.loc.pred, v, {v})
          last == w[Len(w)]
      IN /\ \A x \in 1..Len(w) : \A y \in 1..Len(w) : x # y => w[x] # w[y]
         /\ Len(w) - 1 <= rc.n - 1
         /\ \/ last = rc.loc.i_root /\ rc.loc.pred[last] = last
            \/ rc.loc.pred[last] = NO_PATH

\* Five slides, an edge of weight zero, two different edges of the same
\* weight above zero, and a slide whose walk goes over another slide before
\* it is at the root
C36_Witness ==
  /\ stage = "stack" /\ rc.pc = "done" /\ rc.n = 5
  /\ \E q \in 1..rc.loc.n_edges : rc.loc.G_edge_weight[q] = 0
  /\ \E q \in 1..rc.loc.n_edges : \E r \in 1..rc.loc.n_edges :
       q # r /\ rc.loc.G_edge_weight[q] = rc.loc.G_edge_weight[r]
             /\ rc.loc.G_edge_weight[q] > 0
  /\ \E v \in 0..(rc.n - 1) :
       /\ Len(PredWalk(rc.loc.pred, v, {v})) >= 3
       /\ rc.loc.pred[v] \notin {v, rc.loc.i_root, NO_PATH}

\* ---- the CSR arrays

\* C37: the weights stay aligned with the adjacency: for every slide s and
\* every position p of its row, the weight at slot G_adjidx[s] + p is the one
\* computed for the registration with reference s and, as moving slide, the
\* slide G_adj holds at that slot, for every manifest order.
C37_WeightsAlignedWithAdj ==
  PairwiseDone =>
    \A s \in Slides : \A p \in 0..(Cardinality(rc.loc.slice_nbr[s]) - 1) :
      LET q == rc.loc.G_adjidx[s] + p + 1
          t == rc.loc.G_adj[q]
      IN /\ t \in rc.loc.slice_nbr[s]
         /\ \E m \in EngineMetrics \cup {ParseMetric(rc.disk.metric_txt[<<s, t>>])} :
              /\ FormatMetric(m) = rc.disk.metric_txt[<<s, t>>]
              /\ rc.loc.G_edge_weight[q] = EdgeWeight(m, rc.z_epsilon, rc.z_pos[t] - rc.z_pos[s])

\* A manifest that is not sorted by z, and a row of two slots the weights of
\* which cannot be exchanged
C37_Witness ==
  /\ PairwiseDone
  /\ \E s \in Slides : \E t \in Slides : s < t /\ rc.z_pos[s] > rc.z_pos[t]
  /\ \E s \in Slides :
       /\ Cardinality(rc.loc.slice_nbr[s]) = 2
       /\ LET q == rc.loc.G_adjidx[s] + 1
          IN \A m \in StageMetrics :
               /\ rc.loc.G_edge_weight[q]
                    # EdgeWeight(m, rc.z_epsilon, rc.z_pos[rc.loc.G_adj[q + 1]] - rc.z_pos[s])
               /\ rc.loc.G_edge_weight[q + 1]
                    # EdgeWeight(m, rc.z_epsilon, rc.z_pos[rc.loc.G_adj[q]] - rc.z_pos[s])

\* The sum of the sizes of the neighbour sets of the slides below k
RECURSIVE NbrTotal(_)
NbrTotal(k) == IF k = 0 THEN 0 ELSE NbrTotal(k - 1) + Cardinality(rc.loc.slice_nbr[k - 1])

\* C38: the CSR arrays are well-formed for every manifest and z_range:
\* n_edges is the sum of the sizes of the neighbour sets, no insert of the two
\* passes having met a neighbour that was there already; G_adjidx has |V| + 1
\* entries that never decrease and end at n_edges; every entry of G_adj is a
\* slide; and no slide is its own neighbour.
C38_CsrWellFormed ==
  GraphBuilt =>
    /\ rc.loc.n_edges = NbrTotal(NSlides)
    /\ DOMAIN rc.loc.G_adjidx = 0..NSlides
    /\ rc.loc.G_adjidx[0] = 0
    /\ \A k \in Slides : rc.loc.G_adjidx[k] <= rc.loc.G_adjidx[k + 1]
    /\ rc.loc.G_adjidx[NSlides] = rc.loc.n_edges
    /\ Len(rc.loc.G_adj) = rc.loc.n_edges
    /\ Len(rc.loc.G_edge_weight) = rc.loc.n_edges
    /\ \A q \in 1..rc.loc.n_edges : rc.loc.G_adj[q] \in Slides
    /\ \A s \in Slides : s \notin rc.loc.slice_nbr[s] /\ ~ HasEdge(s, s)

\* Slides that share a z value, and rows of different sizes
C38_Witness ==
  /\ GraphBuilt
  /\ \E s \in Slides : \E t \in Slides \ {s} : rc.z_pos[s] = rc.z_pos[t]
  /\ \E s \in Slides : \E t \in Slides :
       rc.loc.G_adjidx[s + 1] - rc.loc.G_adjidx[s] = 1
         /\ rc.loc.G_adjidx[t + 1] - rc.loc.G_adjidx[t] = 2

====
